---- MODULE Spec2Model ----
(***************************************************************************)
(* DeployBot deploy-orchestration core (src/backend): the per-project      *)
(* timer engine, the analytics deploy sessions, the notification           *)
(* dispatcher, the deploy-log monitor and the orchestrator callbacks that  *)
(* wire them together.                                                     *)
(*                                                                         *)
(* Time is the integer number of seconds read by time.time().  Handlers   *)
(* run on one asyncio event loop; a handler is one action up to the point  *)
(* where it hands work to another task (asyncio.create_task) or sleeps.    *)
(* The deploy wrapper that appends to the log files is another process,    *)
(* so the monitor's size check and its read are separate steps.            *)
(***************************************************************************)
EXTENDS Integers, Sequences, FiniteSets, TLC

\* ---------------------------------------------------------------- bounds
MaxTimerClock == 15
MaxClock == 2700
MaxNotifyClock == 300
MaxSessions == 2
MaxDeploys == 2
MaxNotifications == 2
MaxLines == 3
MaxTimerDuration == 15
MaxTaskCount == 1
MaxSuggestions == 2
MaxCacheEntries == 1
MaxInteractions == 2
MaxEvents == 3
MaxQueue == 2
MaxCommands == 3
MaxLogEntries == 4

\* ------------------------------------------------------- program constants
update_interval == 2
expiry_grace == 5
default_timer_duration == 1800
default_grace_period == 0

Projects == {"alpha", "beta"}
Commands == {"firebase deploy"}
NoProject == "none"
NoTime == -1
NoId == 0

NoNid == <<"none", "new", 0>>

VARIABLES
    now,                 \* time.time()
    active_timers,       \* DeployTimer.active_timers: project -> timer_info
    timer_keys,          \* insertion order of the keys of active_timers
    ticker,              \* DeployTimer.timer_update_task and its position
    active_sessions,     \* AnalyticsManager.active_sessions: session_id -> DeploySession
    saved_sessions,      \* the records of the sessions_YYYY-MM.json shard
    next_session,        \* number of the next session id
    active_notifications,        \* NotificationManager.active_notifications
    notification_display_times,  \* NotificationManager.notification_display_times
    notification_responses,      \* NotificationManager.notification_responses
    next_stamp,          \* the next reading of the millisecond clock used in ids
    snooze_tasks,        \* the _reschedule_notification tasks that are sleeping
    responding,          \* the handle_notification_response calls that wait in a send
    sent,                \* every notification handed to the channels, in order
    show_custom,         \* the notifications the event bus could send, in order
    deploys,             \* the deploy-start events handled so far
    todo,                \* per project, what its TODO.md offers
    deploy_detected,     \* deploybot_state.deploy_detected
    log_files,           \* per project, the lines of logs/deploy_log.txt
    log_exists,          \* the projects whose deploy_log.txt exists
    monitored_projects,  \* DeployMonitor.monitored_projects
    last_known_positions,\* DeployMonitor.last_known_positions
    monitor_task,        \* position of _monitoring_loop inside one check
    emitted,             \* the deploy events handed to the callbacks, in order
    task_cache,          \* TaskSelector.task_cache: cache key -> the text selected
    selected_task,       \* what the last select_best_task returned
    suggestions,         \* per project, the records of suggestions_YYYY-MM.json
    interactions,        \* per project, the records of interactions_YYYY-MM.json
    next_suggestion,     \* number of the next suggestion id
    clients,             \* WebSocketServer.clients
    broadcasts,          \* the broadcast calls that wait in a send
    registering,         \* the clients whose register_client waits in its send
    received,            \* per client, the events sent to it, in order
    published,           \* the source of every broadcast call, in order
    log_queue,           \* ActivityLogger.log_queue, oldest entry first
    processing_active,   \* ActivityLogger.processing_active
    log_waiters,         \* the producers waiting in log_queue.put, in order
    activity_log,        \* the entries written to the activity logs, in order
    mappings_file,       \* project_mappings.json: whether it exists, its mappings
    mappings_cache,      \* ProjectDirectoryManager._mappings_cache
    cache_loaded,        \* ProjectDirectoryManager._cache_loaded
    default_projects,    \* the names of the directories under projects/
    lastOp               \* the handler that ran last, its arguments and result

timerVars == <<active_timers, timer_keys, ticker>>
sessionVars == <<active_sessions, saved_sessions, next_session>>
notifVars == <<active_notifications, notification_display_times,
               notification_responses, next_stamp, snooze_tasks, responding,
               sent, show_custom>>
orchVars == <<deploys, todo, deploy_detected>>
monitorVars == <<log_files, log_exists, monitored_projects, last_known_positions,
                 monitor_task, emitted>>

selectorVars == <<task_cache, selected_task>>
shardVars == <<suggestions, interactions, next_suggestion>>
busVars == <<clients, broadcasts, registering, received, published>>
logVars == <<log_queue, processing_active, log_waiters, activity_log>>
dirVars == <<mappings_file, mappings_cache, cache_loaded, default_projects>>

vars == <<now, timerVars, sessionVars, notifVars, orchVars, monitorVars,
          selectorVars, shardVars, busVars, logVars, dirVars, lastOp>>

Max(a, b) == IF a >= b THEN a ELSE b

NoCommand == "none"

Op(op, project, sid, nid, ret) ==
    [op |-> op, project |-> project, sid |-> sid, nid |-> nid, ret |-> ret,
     arg |-> 0, command |-> NoCommand]

OpArg(op, project, sid, nid, ret, arg) ==
    [op |-> op, project |-> project, sid |-> sid, nid |-> nid, ret |-> ret,
     arg |-> arg, command |-> NoCommand]

Remove(seq, x) == SelectSeq(seq, LAMBDA y : y # x)

Restrict(f, S) == [x \in S |-> f[x]]

\* ============================================================ timer engine
\* The engine's state as one value, so that the handlers that call into it
\* (start_timer from the deploy callback, from the timer-start command and
\* from a notification action) share one definition.
TimerEngine == [timers |-> active_timers, keys |-> timer_keys, ticker |-> ticker]

\* The update task: whether it exists, where it waits (pc), when its sleep
\* ends, the expired_timers of the pass in progress, and for a pass that is
\* suspended inside its loop over active_timers.items() the keys the
\* iterator has passed, the size of the dict when the iterator last moved
\* and the pass's current_time.
IdleTicker == [running |-> FALSE, pc |-> "sleep", wake |-> 0, expired |-> <<>>,
               visited |-> {}, size |-> 0, time |-> 0]

\* asyncio.create_task(self._timer_update_loop()): the loop's first pass runs
\* as soon as the event loop schedules it.
NewTicker(t) == [running |-> TRUE, pc |-> "sleep", wake |-> t, expired |-> <<>>,
                 visited |-> {}, size |-> 0, time |-> 0]

\* stop_timer: the entry is marked stopped, reported and deleted; the update
\* task is cancelled when no timer is left.  A deleted entry is one a
\* suspended iterator has no longer passed.
stop_timer(E, p) ==
    IF p \notin DOMAIN E.timers THEN E
    ELSE LET rest == Restrict(E.timers, DOMAIN E.timers \ {p})
         IN [timers |-> rest,
             keys   |-> Remove(E.keys, p),
             ticker |-> IF DOMAIN rest = {} /\ E.ticker.running
                        THEN IdleTicker
                        ELSE [E.ticker EXCEPT !.visited = @ \ {p}]]

stop_timer_result(E, p) == p \in DOMAIN E.timers

NewTimerInfo(p, duration, command, t) ==
    [project_name      |-> p,
     start_time        |-> t,
     end_time          |-> t + duration,
     duration_seconds  |-> duration,
     remaining_seconds |-> duration,
     deploy_command    |-> command,
     status            |-> "running",
     paused            |-> FALSE,
     pause_time        |-> NoTime,
     pause_duration    |-> 0,
     expired_at        |-> NoTime]

\* A start_timer that leaves a timer the project already has in place.
start_timer_keeping(E, p, duration, command, t) ==
    IF p \in DOMAIN E.timers THEN E
    ELSE [timers |-> [q \in DOMAIN E.timers \cup {p} |->
                        IF q = p THEN NewTimerInfo(p, duration, command, t)
                        ELSE E.timers[q]],
          keys   |-> Append(E.keys, p),
          ticker |-> IF E.ticker.running THEN E.ticker ELSE NewTicker(t)]

\* start_timer: stops the project's existing timer, stores the new one and
\* starts the update loop when none is running.
start_timer(E, p, duration, command, t) ==
    LET S == stop_timer(E, p)
        info == NewTimerInfo(p, duration, command, t)
    IN [timers |-> [q \in DOMAIN S.timers \cup {p} |->
                        IF q = p THEN info ELSE S.timers[q]],
        keys   |-> Append(S.keys, p),
        ticker |-> IF S.ticker.running THEN S.ticker ELSE NewTicker(t)]

\* _calculate_progress, as the exact fraction num/den (den > 0).
calculate_progress(info) ==
    LET total == info.duration_seconds
        elapsed == total - info.remaining_seconds
    IN IF total <= 0 THEN [num |-> 100, den |-> 1]
       ELSE IF elapsed <= 0 THEN [num |-> 0, den |-> 1]
       ELSE IF elapsed >= total THEN [num |-> 100, den |-> 1]
       ELSE [num |-> 100 * elapsed, den |-> total]

\* One pass of _timer_update_loop over a timer: paused timers are skipped,
\* the others get remaining_seconds recomputed and expire at or below zero.
UpdatedInfo(info, t) ==
    IF info.paused THEN info
    ELSE LET remaining == info.end_time - t
         IN [info EXCEPT !.remaining_seconds = Max(0, remaining),
                         !.status = IF remaining <= 0 /\ info.status = "running"
                                    THEN "expired" ELSE info.status]

ExpiresNow(info, t) ==
    /\ ~info.paused
    /\ info.end_time - t <= 0
    /\ info.status = "running"

SetEngine(E) ==
    /\ active_timers' = E.timers
    /\ timer_keys' = E.keys
    /\ ticker' = E.ticker

\* "timer-start" command: start_timer(project_name, duration_seconds, deploy_command)
TimerStartCommand(p, duration, command) ==
    /\ SetEngine(start_timer(TimerEngine, p, duration, command, now))
    /\ lastOp' = [OpArg("timer-start", p, NoId, NoNid, "true", duration)
                    EXCEPT !.command = command]
    /\ UNCHANGED <<now, logVars, dirVars, busVars, selectorVars, shardVars, sessionVars, notifVars, orchVars, monitorVars>>

\* "timer-stop" command: stop_timer(project_name, "manual")
TimerStopCommand(p) ==
    /\ SetEngine(stop_timer(TimerEngine, p))
    /\ lastOp' = Op("timer-stop", p, NoId, NoNid,
                    IF stop_timer_result(TimerEngine, p) THEN "true" ELSE "false")
    /\ UNCHANGED <<now, logVars, dirVars, busVars, selectorVars, shardVars, sessionVars, notifVars, orchVars, monitorVars>>

\* pause_timer: refused when the project has no timer or it is paused already
pause_timer(p) ==
    /\ IF p \in DOMAIN active_timers /\ ~active_timers[p].paused
       THEN /\ active_timers' = [active_timers EXCEPT ![p] =
                    [@ EXCEPT !.paused = TRUE, !.pause_time = now, !.status = "paused"]]
            /\ lastOp' = Op("pause_timer", p, NoId, NoNid, "true")
       ELSE /\ UNCHANGED active_timers
            /\ lastOp' = Op("pause_timer", p, NoId, NoNid, "false")
    /\ UNCHANGED <<now, logVars, dirVars, busVars, selectorVars, shardVars, timer_keys, ticker, sessionVars, notifVars, orchVars, monitorVars>>

\* A resume_timer that leaves the end time where it was.
resume_timer_unshifted(p) ==
    /\ IF p \in DOMAIN active_timers /\ active_timers[p].paused
       THEN /\ LET pause_duration == now - active_timers[p].pause_time
               IN active_timers' = [active_timers EXCEPT ![p] =
                    [@ EXCEPT !.pause_duration = @ + pause_duration,
                              !.paused = FALSE,
                              !.pause_time = NoTime,
                              !.status = "running"]]
            /\ lastOp' = Op("resume_timer", p, NoId, NoNid, "true")
       ELSE /\ UNCHANGED active_timers
            /\ lastOp' = Op("resume_timer", p, NoId, NoNid, "false")
    /\ UNCHANGED <<now, logVars, dirVars, busVars, selectorVars, shardVars, timer_keys, ticker, sessionVars, notifVars, orchVars, monitorVars>>

\* resume_timer: the end time moves back by the time spent paused
resume_timer(p) ==
    /\ IF p \in DOMAIN active_timers /\ active_timers[p].paused
       THEN /\ LET pause_duration == now - active_timers[p].pause_time
               IN active_timers' = [active_timers EXCEPT ![p] =
                    [@ EXCEPT !.pause_duration = @ + pause_duration,
                              !.end_time = @ + pause_duration,
                              !.paused = FALSE,
                              !.pause_time = NoTime,
                              !.status = "running"]]
            /\ lastOp' = Op("resume_timer", p, NoId, NoNid, "true")
       ELSE /\ UNCHANGED active_timers
            /\ lastOp' = Op("resume_timer", p, NoId, NoNid, "false")
    /\ UNCHANGED <<now, logVars, dirVars, busVars, selectorVars, shardVars, timer_keys, ticker, sessionVars, notifVars, orchVars, monitorVars>>

\* extend_timer: adds additional_seconds to the end time and to the duration
extend_timer(p, additional_seconds) ==
    /\ IF p \in DOMAIN active_timers
       THEN /\ active_timers[p].duration_seconds + additional_seconds <= MaxTimerDuration
            /\ active_timers[p].duration_seconds + additional_seconds >= -MaxTimerDuration
            /\ active_timers' = [active_timers EXCEPT ![p] =
                    [@ EXCEPT !.end_time = @ + additional_seconds,
                              !.duration_seconds = @ + additional_seconds]]
            /\ lastOp' = Op("extend_timer", p, NoId, NoNid, "true")
       ELSE /\ UNCHANGED active_timers
            /\ lastOp' = Op("extend_timer", p, NoId, NoNid, "false")
    /\ UNCHANGED <<now, logVars, dirVars, busVars, selectorVars, shardVars, timer_keys, ticker, sessionVars, notifVars, orchVars, monitorVars>>

\* The loop over expired_timers from its next entry on: _handle_timer_expiry
\* looks the timer up, stamps expired_at, publishes timer_expired and the final
\* update and sleeps the grace of 5 s; with no entry left the loop sleeps 2 s.
\* The lookup raises KeyError when the entry is gone, which the loop answers
\* with a sleep of twice the interval, dropping the rest of the list.
handle_expired_timers(timers, tk, expired, t) ==
    IF expired = <<>>
    THEN [timers |-> timers,
          ticker |-> [tk EXCEPT !.pc = "sleep", !.wake = t + update_interval,
                                !.expired = <<>>, !.visited = {}]]
    ELSE IF Head(expired) \notin DOMAIN timers
    THEN [timers |-> timers,
          ticker |-> [tk EXCEPT !.pc = "sleep", !.wake = t + 2 * update_interval,
                                !.expired = <<>>, !.visited = {}]]
    ELSE [timers |-> [timers EXCEPT ![Head(expired)].expired_at = t],
          ticker |-> [tk EXCEPT !.pc = "grace", !.wake = t + expiry_grace,
                                !.expired = expired, !.visited = {}]]

\* One pass of _timer_update_loop in which no update it sends has to wait:
\* every timer that is not paused is updated; the timers that expired are
\* then handled one after the other, else the loop sleeps 2 s.
timer_update_loop ==
    /\ ticker.running
    /\ ticker.pc = "sleep"
    /\ now >= ticker.wake
    /\ LET expired == SelectSeq(timer_keys, LAMBDA p : ExpiresNow(active_timers[p], now))
           updated == [p \in DOMAIN active_timers |-> UpdatedInfo(active_timers[p], now)]
           h == handle_expired_timers(updated, ticker, expired, now)
       IN /\ active_timers' = h.timers
          /\ ticker' = h.ticker
          /\ lastOp' = Op("timer_update",
                          IF expired = <<>> THEN NoProject ELSE Head(expired),
                          NoId, NoNid, "none")
    /\ UNCHANGED <<now, logVars, dirVars, busVars, selectorVars, shardVars, timer_keys, sessionVars, notifVars, orchVars, monitorVars>>

\* A pass of _timer_update_loop that has to wait in an update it sends
\* (await self._send_websocket_update inside the loop over
\* active_timers.items()): the first k timers are done, the k-th was sent, and
\* other handlers run before the iterator moves on.
timer_update_suspended(k) ==
    /\ ticker.running
    /\ ticker.pc = "sleep"
    /\ now >= ticker.wake
    /\ k \in 1..Len(timer_keys)
    /\ ~active_timers[timer_keys[k]].paused
    /\ LET done == SubSeq(timer_keys, 1, k)
           passed == {done[i] : i \in 1..k}
       IN /\ active_timers' = [p \in DOMAIN active_timers |->
                    IF p \in passed THEN UpdatedInfo(active_timers[p], now)
                    ELSE active_timers[p]]
          /\ ticker' = [ticker EXCEPT
                    !.pc = "send",
                    !.expired = SelectSeq(done,
                                    LAMBDA p : ExpiresNow(active_timers[p], now)),
                    !.visited = passed,
                    !.size = Len(timer_keys),
                    !.time = now]
          /\ lastOp' = OpArg("timer_update_suspended", timer_keys[k], NoId, NoNid,
                             "none", k)
    /\ UNCHANGED <<now, logVars, dirVars, busVars, selectorVars, shardVars, timer_keys, sessionVars, notifVars, orchVars, monitorVars>>

\* The suspended pass goes on.  The dict iterator raises RuntimeError
\* ("dictionary changed size during iteration") when the number of timers is
\* not what it was: the loop's handler logs it and sleeps twice the interval,
\* and the expired_timers collected so far are forgotten.  Else the entries
\* the iterator has not passed are updated with the pass's current_time and
\* the expired timers are handled.
timer_update_resumed ==
    /\ ticker.running
    /\ ticker.pc = "send"
    /\ IF Len(timer_keys) # ticker.size
       THEN /\ ticker' = [ticker EXCEPT !.pc = "sleep",
                                        !.wake = now + 2 * update_interval,
                                        !.expired = <<>>, !.visited = {}]
            /\ UNCHANGED active_timers
            /\ lastOp' = Op("timer_update_resumed", NoProject, NoId, NoNid, "raise")
       ELSE LET left == SelectSeq(timer_keys, LAMBDA p : p \notin ticker.visited)
                passed == {left[i] : i \in DOMAIN left}
                expired == ticker.expired \o
                    SelectSeq(left, LAMBDA p : ExpiresNow(active_timers[p], ticker.time))
                updated == [p \in DOMAIN active_timers |->
                    IF p \in passed THEN UpdatedInfo(active_timers[p], ticker.time)
                    ELSE active_timers[p]]
                h == handle_expired_timers(updated, ticker, expired, now)
            IN /\ active_timers' = h.timers
               /\ ticker' = h.ticker
               /\ lastOp' = Op("timer_update_resumed",
                               IF expired = <<>> THEN NoProject ELSE Head(expired),
                               NoId, NoNid, "none")
    /\ UNCHANGED <<now, logVars, dirVars, busVars, selectorVars, shardVars, timer_keys, sessionVars, notifVars, orchVars, monitorVars>>

\* The end of _handle_timer_expiry's grace sleep: whatever timer the project
\* has now is deleted, then the next expired project is handled.
handle_timer_expiry ==
    /\ ticker.running
    /\ ticker.pc = "grace"
    /\ now >= ticker.wake
    /\ LET p == Head(ticker.expired)
           left == DOMAIN active_timers \ {p}
           h == handle_expired_timers(Restrict(active_timers, left), ticker,
                                      Tail(ticker.expired), now)
       IN /\ active_timers' = h.timers
          /\ timer_keys' = Remove(timer_keys, p)
          /\ ticker' = h.ticker
          /\ lastOp' = Op("timer_expiry_deleted", p, NoId, NoNid, "none")
    /\ UNCHANGED <<now, logVars, dirVars, busVars, selectorVars, shardVars, sessionVars, notifVars, orchVars, monitorVars>>

\* The passage of time between two handlers.
AdvanceTime(d, limit) ==
    /\ now + d <= limit
    /\ now' = now + d
    /\ lastOp' = Op("time", NoProject, NoId, NoNid, "none")
    /\ UNCHANGED <<logVars, dirVars, busVars, selectorVars, shardVars, timerVars, sessionVars, notifVars,
                   orchVars, monitorVars>>

\* ======================================================= analytics sessions
\* DeploySession as start_deploy_session creates it.  The productivity score,
\* which end_deploy_session derives from the other fields, is left out.
NewSession(sid, p, command, duration, t) ==
    [session_id                     |-> sid,
     project_name                   |-> p,
     deploy_command                 |-> command,
     session_start                  |-> t,
     session_end                    |-> NoTime,
     timer_duration_seconds         |-> duration,
     cloud_propagation_time_seconds |-> duration,
     tasks_suggested                |-> 0,
     tasks_accepted                 |-> 0,
     switch_button_pressed          |-> FALSE,
     switch_timestamp               |-> NoTime,
     estimated_time_saved_seconds   |-> 0,
     session_status                 |-> "active"]

\* Session ids are md5 digests of project, command and time.time(); they are
\* numbered here in the order of their creation, which is also the order in
\* which the dict active_sessions iterates.
start_deploy_session(p, command, duration) ==
    /\ next_session <= MaxSessions
    /\ active_sessions' = [s \in DOMAIN active_sessions \cup {next_session} |->
            IF s = next_session
            THEN NewSession(next_session, p, command, duration, now)
            ELSE active_sessions[s]]
    /\ next_session' = next_session + 1
    /\ lastOp' = OpArg("start_deploy_session", p, next_session, NoNid, "true", duration)
    /\ UNCHANGED <<now, logVars, dirVars, busVars, selectorVars, shardVars, timerVars, saved_sessions, notifVars, orchVars, monitorVars>>

\* An end_deploy_session that leaves the time saved as it was.
EndedSession_unestimated(session, status, t) ==
    [session EXCEPT !.session_end = t, !.session_status = status]

\* The session as end_deploy_session leaves it before saving it.
EndedSession(session, status, t) ==
    [session EXCEPT
        !.session_end = t,
        !.session_status = status,
        !.estimated_time_saved_seconds =
            IF session.switch_button_pressed
            THEN session.cloud_propagation_time_seconds ELSE 0]

\* end_deploy_session.  The module logs through logging.getLogger with keyword
\* arguments, which Logger.warning and Logger.error reject with TypeError:
\* an unknown id raises, and so does a failed write of the shard (save_ok
\* false), which leaves the ended session in active_sessions.
end_deploy_session(sid, status, save_ok) ==
    /\ IF sid \notin DOMAIN active_sessions
       THEN /\ UNCHANGED <<active_sessions, saved_sessions>>
            /\ lastOp' = Op("end_deploy_session", NoProject, sid, NoNid, "raise")
       ELSE LET ended == EndedSession(active_sessions[sid], status, now)
            IN IF save_ok
               THEN /\ saved_sessions' = Append(saved_sessions, ended)
                    /\ active_sessions' =
                            Restrict(active_sessions, DOMAIN active_sessions \ {sid})
                    /\ lastOp' = Op("end_deploy_session", ended.project_name, sid,
                                    NoNid, "true")
               ELSE /\ active_sessions' = [active_sessions EXCEPT ![sid] = ended]
                    /\ UNCHANGED saved_sessions
                    /\ lastOp' = Op("end_deploy_session", ended.project_name, sid,
                                    NoNid, "raise")
    /\ UNCHANGED <<now, logVars, dirVars, busVars, selectorVars, shardVars, timerVars, next_session, notifVars, orchVars, monitorVars>>

MinOf(S) == CHOOSE x \in S : \A y \in S : x <= y

\* get_active_session_for_project: the first active session of the project in
\* the dict's order, or none.
get_active_session_for_project(sessions, p) ==
    LET found == {s \in DOMAIN sessions :
                    /\ sessions[s].project_name = p
                    /\ sessions[s].session_status = "active"}
    IN IF found = {} THEN NoId ELSE MinOf(found)

\* The session record_switch_button_press acts on: the one with the given id
\* if it is in active_sessions, else the project's first active session.
SwitchTarget(sessions, sid, p) ==
    IF sid # NoId /\ sid \in DOMAIN sessions THEN sid
    ELSE IF p # NoProject THEN get_active_session_for_project(sessions, p)
    ELSE NoId

\* A record_switch_button_press without the first-press check: every press
\* writes the timestamp.
PressSwitch_overwriting(session, t) ==
    [session EXCEPT !.switch_button_pressed = TRUE, !.switch_timestamp = t]

\* record_switch_button_press on the resolved session: only the first press
\* of a session writes.
PressSwitch(session, t) ==
    IF session.switch_button_pressed THEN session
    ELSE [session EXCEPT !.switch_button_pressed = TRUE, !.switch_timestamp = t]

\* record_switch_button_press as a function of the session map: the new map
\* and the result ("raise": the warning about a missing session raises).
record_switch(sessions, sid, p, t) ==
    LET target == SwitchTarget(sessions, sid, p)
    IN IF target = NoId
       THEN [sessions |-> sessions, ret |-> "raise", target |-> NoId]
       ELSE [sessions |-> [sessions EXCEPT ![target] = PressSwitch(@, t)],
             ret |-> "true", target |-> target]

record_switch_button_press(sid, p) ==
    /\ LET r == record_switch(active_sessions, sid, p, now)
       IN /\ active_sessions' = r.sessions
          /\ lastOp' = Op("record_switch_button_press", p, r.target, NoNid, r.ret)
    /\ UNCHANGED <<now, logVars, dirVars, busVars, selectorVars, shardVars, timerVars, saved_sessions, next_session, notifVars, orchVars, monitorVars>>

\* update_session_task_counts: only positive deltas are added.
update_session_task_counts(sid, suggested, accepted) ==
    /\ IF sid \notin DOMAIN active_sessions
       THEN /\ UNCHANGED active_sessions
            /\ lastOp' = Op("update_session_task_counts", NoProject, sid, NoNid, "raise")
       ELSE /\ active_sessions[sid].tasks_suggested + suggested <= MaxTaskCount
            /\ active_sessions[sid].tasks_accepted + accepted <= MaxTaskCount
            /\ active_sessions' = [active_sessions EXCEPT ![sid] =
                    [@ EXCEPT !.tasks_suggested = IF suggested > 0 THEN @ + suggested ELSE @,
                              !.tasks_accepted = IF accepted > 0 THEN @ + accepted ELSE @]]
            /\ lastOp' = Op("update_session_task_counts",
                            active_sessions[sid].project_name, sid, NoNid, "true")
    /\ UNCHANGED <<now, logVars, dirVars, busVars, selectorVars, shardVars, timerVars, saved_sessions, next_session, notifVars, orchVars, monitorVars>>

\* ============================================================ task selector
\* A line of TODO.md that holds a task: its checkbox, the words of its text
\* and its hashtags in the order they are written.
Lower(tag) == IF tag = "#Backend" THEN "#backend" ELSE tag

NoTask == [id |-> 0, text |-> <<>>, tags |-> <<>>, completed |-> FALSE,
           priority |-> 0, estimated_duration |-> 0]

HasWord(text, words) == \E i \in DOMAIN text : text[i] \in words

\* _estimate_task_duration: the first tag among #short, #long and #quick
\* decides, else a keyword of the text, else 45 minutes.
RECURSIVE estimate_task_duration(_, _)
estimate_task_duration(tags, text) ==
    IF tags = <<>>
    THEN IF HasWord(text, {"quick", "simple", "update", "check", "review"}) THEN 15
         ELSE IF HasWord(text, {"implement", "design", "research", "write",
                                "create", "build"}) THEN 90
         ELSE 45
    ELSE IF Lower(Head(tags)) = "#short" THEN 20
    ELSE IF Lower(Head(tags)) = "#long" THEN 120
    ELSE IF Lower(Head(tags)) = "#quick" THEN 10
    ELSE estimate_task_duration(Tail(tags), text)

tag_priorities(tag) ==
    IF tag = "#urgent" THEN 3
    ELSE IF tag \in {"#important", "#high"} THEN 2
    ELSE IF tag = "#low" THEN -2
    ELSE IF tag = "#someday" THEN -3
    ELSE IF tag \in {"#short", "#solo"} THEN 1
    ELSE 0

RECURSIVE SumTagPriorities(_)
SumTagPriorities(tags) ==
    IF tags = <<>> THEN 0
    ELSE tag_priorities(Lower(Head(tags))) + SumTagPriorities(Tail(tags))

Clamp(lo, x, hi) == IF x < lo THEN lo ELSE IF x > hi THEN hi ELSE x

\* _calculate_task_priority
calculate_task_priority(tags, text) ==
    Clamp(1, 5 + SumTagPriorities(tags)
             + (IF HasWord(text, {"urgent", "asap", "deadline", "important"})
                THEN 2 ELSE 0)
             - (IF HasWord(text, {"someday", "maybe"}) THEN 2 ELSE 0), 10)

\* parse_todo_file: one task per task line, numbered from 1; only "- [x]"
\* makes a task completed.
parse_todo_file(file) ==
    [i \in DOMAIN file |->
        [id |-> i, text |-> file[i].text, tags |-> file[i].tags,
         completed |-> file[i].done,
         priority |-> calculate_task_priority(file[i].tags, file[i].text),
         estimated_duration |-> estimate_task_duration(file[i].tags, file[i].text)]]

LowerTags(task) == {Lower(task.tags[i]) : i \in DOMAIN task.tags}

\* list.sort(key, reverse=True) on a list of [key, item]: stable, highest
\* key first
RECURSIVE InsertByKey(_, _)
InsertByKey(sorted, x) ==
    IF sorted = <<>> THEN <<x>>
    ELSE IF Head(sorted).key >= x.key
    THEN <<Head(sorted)>> \o InsertByKey(Tail(sorted), x)
    ELSE <<x>> \o sorted

RECURSIVE SortKeyed(_)
SortKeyed(seq) ==
    IF seq = <<>> THEN <<>>
    ELSE InsertByKey(SortKeyed(SubSeq(seq, 1, Len(seq) - 1)), seq[Len(seq)])

SortByKey(seq, key(_)) ==
    LET keyed == SortKeyed([i \in DOMAIN seq |-> [key |-> key(seq[i]), item |-> seq[i]]])
    IN [i \in DOMAIN keyed |-> keyed[i].item]

\* A filter that lets every pending task pass.
PassesContext_any(task, context) == TRUE

\* _filter_tasks_by_context without its final sort: what passes the filters
PassesContext(task, context) ==
    /\ ~(context.deploy_active /\ "#backend" \in LowerTags(task))
    /\ ~(context.timer_duration <= 900
            /\ ("#long" \in LowerTags(task) \/ task.estimated_duration > 60))

\* The priority a task leaves the filter with: a #creative task loses 1,
\* down to 1, before 8 and after 18 o'clock (context.current_hour is the
\* filter's datetime.now().hour), a #research task gains 1, a #writing task
\* gains 2 during a deploy.
ContextPriority(task, context) ==
    (IF "#creative" \in LowerTags(task)
            /\ (context.current_hour < 8 \/ context.current_hour > 18)
     THEN Max(1, task.priority - 1) ELSE task.priority)
        + (IF "#research" \in LowerTags(task) THEN 1 ELSE 0)
        + (IF "#writing" \in LowerTags(task) /\ context.deploy_active THEN 2 ELSE 0)

\* _filter_tasks_by_context
filter_tasks_by_context(tasks, context) ==
    LET kept == SelectSeq(tasks, LAMBDA t : PassesContext(t, context))
        adjusted == [i \in DOMAIN kept |->
                        [kept[i] EXCEPT !.priority = ContextPriority(kept[i], context)]]
    IN SortByKey(adjusted, LAMBDA t : t.priority)

heuristic_score(task, context) ==
    task.priority
        + (IF context.deploy_active /\ "#solo" \in LowerTags(task) THEN 2 ELSE 0)
        + (IF context.timer_duration <= 1800 /\ "#short" \in LowerTags(task)
           THEN 1 ELSE 0)
        + (IF LowerTags(task) \cap {"#creative", "#writing"} # {} THEN 1 ELSE 0)

\* _select_task_heuristic on a list that is not empty
select_task_heuristic(tasks, context) ==
    Head(SortByKey(tasks, LAMBDA t : heuristic_score(t, context)))

IsInfix(a, b) ==
    \E i \in 0..(Len(b) - Len(a)) : SubSeq(b, i + 1, i + Len(a)) = a

FirstOr(seq, default) == IF seq = <<>> THEN default ELSE Head(seq)

\* _parse_llm_response: the task whose text is the selected text, else the
\* first whose text holds it or is held by it, else none.
parse_llm_response(selected_task_text, tasks) ==
    IF selected_task_text = <<>> THEN NoTask
    ELSE LET exact == SelectSeq(tasks, LAMBDA t : t.text = selected_task_text)
             fuzzy == SelectSeq(tasks, LAMBDA t :
                            \/ IsInfix(selected_task_text, t.text)
                            \/ IsInfix(t.text, selected_task_text))
         IN IF exact # <<>> THEN Head(exact) ELSE FirstOr(fuzzy, NoTask)

\* No answer of the model in time, or an API error.
NoResponse == [ok |-> FALSE, selected_task |-> <<>>]

\* hash(tuple(task_texts) + tuple(sorted(context.items()))): the items of the
\* context dict; current_hour is the clock's reading, not one of them.
CacheKey(tasks, context) ==
    <<[i \in DOMAIN tasks |-> tasks[i].text],
      [deploy_active |-> context.deploy_active,
       timer_duration |-> context.timer_duration, use_llm |-> context.use_llm]>>

\* _select_task_with_llm: a cached selection is answered from the list at
\* hand; else the model is asked (response.ok false: time-out or API error)
\* and a selection that matches a task is cached.
select_task_with_llm(tasks, context, cache, response) ==
    LET key == CacheKey(tasks, context)
        cached == IF key \in DOMAIN cache
                  THEN FirstOr(SelectSeq(tasks, LAMBDA t : t.text = cache[key]), NoTask)
                  ELSE NoTask
        result == IF response.ok THEN parse_llm_response(response.selected_task, tasks)
                  ELSE NoTask
    IN IF cached # NoTask THEN [task |-> cached, cache |-> cache, path |-> "cache"]
       ELSE IF result # NoTask
       THEN [task |-> result,
             cache |-> [k \in DOMAIN cache \cup {key} |->
                            IF k = key THEN result.text ELSE cache[k]],
             path |-> "llm"]
       ELSE [task |-> NoTask, cache |-> cache, path |-> "none"]

\* select_best_task up to the recording of the suggestion: the task it picks
\* from the pending tasks that pass the context filters, by the model when a
\* client is configured and the context asks for it, else by the heuristic.
best_task(file, context, cache, client, response) ==
    LET tasks == parse_todo_file(file)
        pending_tasks == SelectSeq(tasks, LAMBDA t : ~t.completed)
        filtered_tasks == filter_tasks_by_context(pending_tasks, context)
        llm == select_task_with_llm(filtered_tasks, context, cache, response)
    IN IF filtered_tasks = <<>>
       THEN [task |-> NoTask, cache |-> cache, path |-> "none"]
       ELSE IF client /\ context.use_llm /\ llm.task # NoTask THEN llm
       ELSE [task |-> select_task_heuristic(filtered_tasks, context),
             cache |-> IF client /\ context.use_llm THEN llm.cache ELSE cache,
             path |-> "heuristic"]

NoContext == [deploy_active |-> FALSE, timer_duration |-> 0, use_llm |-> FALSE,
              current_hour |-> 12]

NoSelection == [task |-> NoTask, suggestion_id |-> NoId, project |-> NoProject,
                file |-> <<>>,
                context |-> NoContext, path |-> "none"]

ShardOf(shards, p) == IF p \in DOMAIN shards THEN shards[p] ELSE <<>>

AppendTo(shards, p, record) ==
    [q \in DOMAIN shards \cup {p} |->
        IF q = p THEN Append(ShardOf(shards, p), record) ELSE shards[q]]

\* A _save_suggestion whose failure is logged and passed over, as its
\* try/except is written to do.
save_suggestion_passing(shards, p, record, save_ok) ==
    [shards |-> IF save_ok THEN AppendTo(shards, p, record) ELSE shards,
     raised |-> FALSE]

\* _save_suggestion: the record is appended to the project's shard of the
\* month.  When reading or writing the file fails, the handler's
\* logger.error(..., error=..., suggestion_id=...) is a call of a
\* logging.Logger with keyword arguments, which raises TypeError out of
\* _save_suggestion and record_task_suggestion.
save_suggestion(shards, p, record, save_ok) ==
    [shards |-> IF save_ok THEN AppendTo(shards, p, record) ELSE shards,
     raised |-> ~save_ok]

\* select_best_task(project_path, context): the task picked is recorded as a
\* suggestion and returned with the suggestion's id.  An exception of the
\* recording on the model's path is answered by the heuristic path, which
\* records again; there it leaves select_best_task.  lastOp.arg of a call
\* that returns no task is the length of its filtered_tasks.
SelectBestTask(p, file, context, client, response, save_ok) ==
    /\ next_suggestion <= MaxSuggestions
    /\ LET r == best_task(file, context, task_cache, client, response)
           filtered_tasks == filter_tasks_by_context(
                                SelectSeq(parse_todo_file(file),
                                          LAMBDA t : ~t.completed), context)
           picked == IF r.path \in {"llm", "cache"} /\ ~save_ok
                     THEN [r EXCEPT !.task = select_task_heuristic(filtered_tasks,
                                                                   context),
                                    !.path = "heuristic"]
                     ELSE r
           saved == save_suggestion(suggestions, p,
                        [id |-> next_suggestion, task_text |-> picked.task.text],
                        save_ok)
       IN /\ Cardinality(DOMAIN r.cache) <= MaxCacheEntries
          /\ task_cache' = r.cache
          /\ IF picked.task = NoTask
             THEN /\ selected_task' = NoSelection
                  /\ UNCHANGED <<suggestions, next_suggestion>>
                  /\ lastOp' = OpArg("select_best_task", p, NoId, NoNid, "none",
                                     Len(filtered_tasks))
             ELSE /\ suggestions' = saved.shards
                  /\ next_suggestion' = next_suggestion + 1
                  /\ IF saved.raised
                     THEN /\ selected_task' = NoSelection
                          /\ lastOp' = OpArg("select_best_task", p, NoId, NoNid,
                                             "raise", Len(filtered_tasks))
                     ELSE /\ selected_task' =
                                [task |-> picked.task, suggestion_id |-> next_suggestion,
                                 project |-> p, file |-> file, context |-> context,
                                 path |-> picked.path]
                          /\ lastOp' = OpArg("select_best_task", p, NoId, NoNid,
                                             "task", next_suggestion)
    /\ UNCHANGED <<now, logVars, dirVars, busVars, timerVars, sessionVars, notifVars, orchVars, monitorVars,
                   interactions>>

\* ==================================================== notification manager
Templates == {"deploy_detected", "task_suggestion", "timer_expiry",
              "deploy_completed", "unified_suggestion"}

NotifState ==
    [active |-> active_notifications,
     times  |-> notification_display_times,
     stamp  |-> next_stamp,
     sent   |-> sent,
     bus    |-> show_custom]

SetNotif(N) ==
    /\ active_notifications' = N.active
    /\ notification_display_times' = N.times
    /\ next_stamp' = N.stamp
    /\ sent' = N.sent
    /\ show_custom' = N.bus

Put(f, k, v) == [x \in DOMAIN f \cup {k} |-> IF x = k THEN v ELSE f[x]]

Drop(f, k) == Restrict(f, DOMAIN f \ {k})

\* The id _send_notification makes: "<template>_<milliseconds>".  Every id
\* takes a new reading of the millisecond clock.
NewNotificationId(N, template) == <<template, "new", N.stamp>>

\* data["task"] of a notification: the words of the task's text and the
\* suggestion id select_best_task put on the task (NoId: none).
NoTaskData == [has_task |-> FALSE, text |-> <<>>, suggestion_id |-> NoId]

TaskData(text, suggestion_id) ==
    [has_task |-> TRUE, text |-> text, suggestion_id |-> suggestion_id]

\* _format_template_string on the template's message, as a list of words:
\* only task_suggestion puts the task's text into its message.
format_template_string(template, task) ==
    IF template = "task_suggestion"
    THEN <<"While", "waiting", "for", "propagation:">> \o task.text
    ELSE IF template = "unified_suggestion"
    THEN <<"Timer", "update", "with", "task", "suggestion", "available">>
    ELSE <<template>>

\* json.dumps(message) in send_to_client raises TypeError for a notification
\* that holds the asyncio task of its snooze.
json_dumps_raises(n) == n.snooze_task

\* _send_custom_notification: broadcast of the show_custom event with the
\* notification in it; send_to_client catches what json.dumps raises and the
\* event is sent to nobody.
send_custom_notification(S, n) ==
    IF json_dumps_raises(n) THEN S ELSE Append(S, n)

\* _send_notification: the notification is stored in active_notifications
\* with its display time and sent: to the event bus, then to the platform
\* channels; deploy names the deploy-start event it was sent for (0: none).
send_notification(N, template, p, task, deploy, t) ==
    LET nid == NewNotificationId(N, template)
        n == [id |-> nid, template |-> template, type |-> template,
              project_name |-> p, has_task |-> task.has_task,
              suggestion_id |-> task.suggestion_id,
              message |-> format_template_string(template, task),
              timestamp |-> t, deploy |-> deploy,
              has_category |-> TRUE, snooze_task |-> FALSE]
    IN [active |-> Put(N.active, nid, n),
        times  |-> Put(N.times, nid, t),
        stamp  |-> N.stamp + 1,
        sent   |-> Append(N.sent, n),
        bus    |-> send_custom_notification(N.bus, n)]

\* notify_deploy_detected, notify_task_suggestion, notify_unified_suggestion,
\* notify_timer_expiry and notify_deploy_completed called on their own, as
\* test_notification and test_unified_notification call them: with a task
\* that carries no suggestion id.
Notify(template, p) ==
    /\ next_stamp <= MaxNotifications
    /\ SetNotif(send_notification(NotifState, template, p,
                    IF template \in {"task_suggestion", "unified_suggestion"}
                    THEN TaskData(<<"task">>, NoId) ELSE NoTaskData, 0, now))
    /\ lastOp' = Op("notify", p, NoId, NewNotificationId(NotifState, template), "true")
    /\ UNCHANGED <<responding, now, logVars, dirVars, busVars, selectorVars, shardVars, timerVars, sessionVars, notification_responses,
                   snooze_tasks, orchVars, monitorVars>>

\* A notify_* call that reads int(time.time() * 1000) within the millisecond
\* of the reading before it: the id is made from the same clock value.
NotifyInSameMillisecond(template, p) ==
    /\ next_stamp > 1
    /\ Len(sent) <= MaxNotifications
    /\ LET N == [NotifState EXCEPT !.stamp = next_stamp - 1]
       IN /\ SetNotif(send_notification(N, template, p,
                        IF template \in {"task_suggestion", "unified_suggestion"}
                        THEN TaskData(<<"task">>, NoId) ELSE NoTaskData, 0, now))
          /\ lastOp' = Op("notify", p, NoId, NewNotificationId(N, template), "true")
    /\ UNCHANGED <<responding, now, logVars, dirVars, busVars, selectorVars, shardVars,
                   timerVars, sessionVars, notification_responses,
                   snooze_tasks, orchVars, monitorVars>>

\* The command test-week3-workflow: select_best_task by the heuristic, then
\* notify_task_suggestion with the task it returned, which carries the id of
\* the suggestion recorded for it.  When the recording raises, the command
\* answers with the error and sends nothing.
Week3Workflow(p, file, save_ok) ==
    /\ next_stamp <= MaxNotifications
    /\ LET context == [deploy_active |-> TRUE, timer_duration |-> 1800, use_llm |-> FALSE,
                       current_hour |-> 12]
           r == best_task(file, context, task_cache, FALSE, NoResponse)
           saved == save_suggestion(suggestions, p,
                        [id |-> next_suggestion, task_text |-> r.task.text], save_ok)
       IN IF r.task = NoTask
          THEN /\ lastOp' = Op("test-week3-workflow", p, NoId, NoNid, "none")
               /\ UNCHANGED <<selected_task, suggestions, next_suggestion,
                              active_notifications, notification_display_times,
                              next_stamp, sent, show_custom>>
          ELSE /\ suggestions' = saved.shards
               /\ next_suggestion' = next_suggestion + 1
               /\ IF saved.raised
                  THEN /\ lastOp' = Op("test-week3-workflow", p, NoId, NoNid, "raise")
                       /\ UNCHANGED <<selected_task, active_notifications,
                                      notification_display_times, next_stamp, sent, show_custom>>
                  ELSE /\ selected_task' =
                            [task |-> r.task, suggestion_id |-> next_suggestion,
                             project |-> p, file |-> file, context |-> context,
                             path |-> r.path]
                       /\ SetNotif(send_notification(NotifState, "task_suggestion", p,
                                TaskData(r.task.text, next_suggestion), 0, now))
                       /\ lastOp' = Op("test-week3-workflow", p, NoId,
                                       NewNotificationId(NotifState, "task_suggestion"),
                                       "true")
    /\ UNCHANGED <<responding, now, logVars, dirVars, busVars, task_cache, interactions, timerVars, sessionVars,
                   notification_responses, snooze_tasks, orchVars, monitorVars>>

\* The actions handle_notification_response keeps from its own removal of the
\* notification, and the actions that start with "snooze".
SnoozeActions == {"snooze", "snooze_5min", "snooze_10min"}
SnoozePrefixed == SnoozeActions \cup {"snooze_15min"}

IsSwitchAction(n, action) ==
    \/ action = "switch_now" /\ n.type = "task_suggestion"
    \/ action = "switch_to_task" /\ n.type = "unified_suggestion"

\* _handle_task_switch up to its first failure: the switch is recorded on the
\* project's active session, then "from . import redirect" raises ImportError
\* (notification is loaded as a top-level module), which
\* _process_notification_action logs.  Nothing after the import runs: no
\* redirection, no task-acceptance count, no redirection_result event.
handle_task_switch(sessions, n, t) ==
    LET sid == get_active_session_for_project(sessions, n.project_name)
    IN IF n.has_task /\ sid # NoId
       THEN record_switch(sessions, sid, n.project_name, t).sessions
       ELSE sessions

\* additional_data["snooze_minutes"] that int() does not take: a word, null.
NotANumber == -2

\* _handle_snooze: minutes of the snooze
SnoozeMinutes(action, extra) ==
    IF action = "snooze_5min" THEN 5
    ELSE IF action = "snooze_10min" THEN 10
    ELSE IF extra.snooze_minutes = NoTime THEN 5 ELSE extra.snooze_minutes

\* int(additional_data.get("snooze_minutes", 5)) raises ValueError or
\* TypeError, before _handle_snooze has removed the notification.
SnoozeRaises(action, extra) ==
    action \notin {"snooze_5min", "snooze_10min"} /\ extra.snooze_minutes = NotANumber

NoExtra == [snooze_minutes |-> NoTime]

\* copy.deepcopy(notification) raises TypeError for a notification that
\* holds the asyncio task of an earlier snooze, before _handle_snooze has
\* removed the notification.
deepcopy_raises(n) == n.snooze_task

\* interaction_type_mapping.get(action, "ignored")
interaction_type(action) ==
    IF action \in {"switch_now", "switch_to_task"} THEN "accepted"
    ELSE IF action \in SnoozeActions THEN "snoozed"
    ELSE IF action = "dismiss" THEN "dismissed"
    ELSE "ignored"

\* _record_interaction_analytics: one record in the project's interactions
\* shard for a task_suggestion or unified_suggestion whose task carries a
\* suggestion id; nothing without the id, and nothing when _save_interaction
\* fails (its failure, and the TypeError of its logger.error, end in the
\* except of _record_interaction_analytics).
record_interaction_analytics(shards, n, action, save_ok) ==
    IF /\ n.type \in {"task_suggestion", "unified_suggestion"}
       /\ n.suggestion_id # NoId
       /\ save_ok
    THEN AppendTo(shards, n.project_name,
                  [suggestion_id |-> n.suggestion_id,
                   interaction_type |-> interaction_type(action)])
    ELSE shards

\* A handling of the response in which a snooze leaves the notification in
\* active_notifications.
Respond_unremoved(R, nid, action, extra, save_ok, t) ==
    LET n == R.active[nid]
        snoozed == action \in SnoozePrefixed /\ ~IsSwitchAction(n, action)
                        /\ ~SnoozeRaises(action, extra) /\ ~deepcopy_raises(n)
    IN [active |-> IF action \notin SnoozeActions THEN Drop(R.active, nid) ELSE R.active,
        times |-> IF action \in SnoozeActions THEN R.times ELSE Drop(R.times, nid),
        responses |-> Put(R.responses, nid,
                          [action |-> action,
                           response_time_seconds |->
                              IF nid \in DOMAIN R.times THEN t - R.times[nid] ELSE 0]),
        sessions |-> IF IsSwitchAction(n, action) THEN handle_task_switch(R.sessions, n, t)
                     ELSE R.sessions,
        snoozes |-> IF snoozed
                    THEN R.snoozes \cup
                         {[notification |-> [n EXCEPT !.snooze_task = TRUE],
                           due |-> t + 60 * SnoozeMinutes(action, extra)]}
                    ELSE R.snoozes,
        interactions |-> record_interaction_analytics(R.interactions, n, action, save_ok)]

\* What one handle_notification_response does to the manager and the shards:
\* the response is stored, the interaction recorded, the action processed,
\* and the notification removed: by _handle_snooze for an action that starts
\* with "snooze", by the handler itself for an action that is none of
\* snooze, snooze_5min, snooze_10min.
Respond(R, nid, action, extra, save_ok, t) ==
    LET n == R.active[nid]
        is_switch == IsSwitchAction(n, action)
        is_snooze == ~is_switch /\ action \in SnoozePrefixed
        snoozed == is_snooze /\ ~SnoozeRaises(action, extra) /\ ~deepcopy_raises(n)
    IN [active |-> IF snoozed \/ action \notin SnoozeActions
                   THEN Drop(R.active, nid) ELSE R.active,
        times |-> IF action \in SnoozeActions THEN R.times ELSE Drop(R.times, nid),
        responses |-> Put(R.responses, nid,
                          [action |-> action,
                           response_time_seconds |->
                              IF nid \in DOMAIN R.times THEN t - R.times[nid] ELSE 0]),
        sessions |-> IF is_switch THEN handle_task_switch(R.sessions, n, t)
                     ELSE R.sessions,
        snoozes |-> IF snoozed
                    THEN R.snoozes \cup
                         {[notification |-> [n EXCEPT !.snooze_task = TRUE],
                           due |-> t + 60 * SnoozeMinutes(action, extra)]}
                    ELSE R.snoozes,
        interactions |-> record_interaction_analytics(R.interactions, n, action, save_ok)]

RespondState ==
    [active |-> active_notifications, times |-> notification_display_times,
     responses |-> notification_responses, sessions |-> active_sessions,
     snoozes |-> snooze_tasks, interactions |-> interactions]

SetRespond(R) ==
    /\ active_notifications' = R.active
    /\ notification_display_times' = R.times
    /\ notification_responses' = R.responses
    /\ active_sessions' = R.sessions
    /\ snooze_tasks' = R.snoozes
    /\ interactions' = R.interactions

\* handle_notification_response(notification_id, action, additional_data).
\* "start_new_timer" starts nothing: _handle_start_new_timer stops at its
\* "from . import timer", as _handle_task_switch does at its import.
handle_notification_response(nid, action, extra, save_ok) ==
    IF nid \notin DOMAIN active_notifications
    THEN /\ lastOp' = Op(action, NoProject, NoId, nid, "false")
         /\ UNCHANGED <<now, logVars, dirVars, busVars, selectorVars, shardVars, timerVars, sessionVars, notifVars, orchVars, monitorVars>>
    ELSE LET n == active_notifications[nid]
         IN /\ SetRespond(Respond(RespondState, nid, action, extra, save_ok, now))
            /\ lastOp' = Op(action, n.project_name,
                            get_active_session_for_project(active_sessions, n.project_name),
                            nid, "true")
            /\ UNCHANGED <<responding, now, logVars, dirVars, busVars, selectorVars, suggestions, next_suggestion, timerVars,
                           saved_sessions, next_session, next_stamp,
                           sent, show_custom, orchVars, monitorVars>>

\* The keys of active_notifications in the order of the dict: the order in
\* which they were stored, which is the order of the clock readings in them.
RECURSIVE KeysInOrder(_)
KeysInOrder(ids) ==
    IF ids = {} THEN <<>>
    ELSE LET first == CHOOSE x \in ids : \A y \in ids : x[3] <= y[3]
         IN <<first>> \o KeysInOrder(ids \ {first})

RECURSIVE RespondAll(_, _, _, _)
RespondAll(R, ids, save_ok, t) ==
    IF ids = <<>> THEN R
    ELSE RespondAll(IF Head(ids) \in DOMAIN R.active
                    THEN Respond(R, Head(ids), "dismiss_all", NoExtra, save_ok, t)
                    ELSE R,
                    Tail(ids), save_ok, t)

\* dismiss_all_notifications: "dismiss_all" is answered to every notification
\* that is active.
dismiss_all_notifications(save_ok) ==
    /\ SetRespond(RespondAll(RespondState, KeysInOrder(DOMAIN active_notifications),
                             save_ok, now))
    /\ lastOp' = OpArg("dismiss_all", NoProject, NoId, NoNid, "none",
                       Cardinality(DOMAIN active_notifications))
    /\ UNCHANGED <<responding, now, logVars, dirVars, busVars, selectorVars, suggestions, next_suggestion, timerVars,
                   saved_sessions, next_session, next_stamp,
                   sent, show_custom, orchVars, monitorVars>>

\* The command test-snooze-quick: a task_suggestion for TestProject whose
\* task carries no suggestion id is stored under "test_snooze_<milliseconds>"
\* and handed to _handle_snooze with snooze_minutes 0.17, of which int()
\* makes 0.
TestSnoozeQuick(p) ==
    /\ next_stamp <= MaxNotifications
    /\ LET nid == <<"task_suggestion", "test", next_stamp>>
           n == [id |-> nid, template |-> "task_suggestion", type |-> "task_suggestion",
                 project_name |-> p, has_task |-> TRUE, suggestion_id |-> NoId,
                 message |-> <<"This", "notification", "will", "snooze", "for",
                               "10", "seconds">>,
                 timestamp |-> now, deploy |-> 0,
                 has_category |-> FALSE, snooze_task |-> TRUE]
       IN /\ snooze_tasks' = snooze_tasks \cup {[notification |-> n, due |-> now]}
          /\ lastOp' = Op("test-snooze-quick", p, NoId, nid, "true")
    /\ next_stamp' = next_stamp + 1
    /\ UNCHANGED <<responding, now, logVars, dirVars, busVars, selectorVars, shardVars, timerVars, sessionVars,
                   active_notifications, notification_display_times,
                   notification_responses, sent, show_custom, orchVars, monitorVars>>

\* if "(Reminder)" not in message: message += " (Reminder)"
add_reminder_text(message) ==
    IF \E i \in DOMAIN message : message[i] = "(Reminder)" THEN message
    ELSE Append(message, "(Reminder)")

\* _reschedule_notification after its sleep: the copy, which holds its own
\* asyncio task as snooze_task, is stored again under a new id
\* "<template>_resend_<milliseconds>", with " (Reminder)" appended to the
\* message unless the message holds "(Reminder)" already; _add_to_history
\* raises KeyError for a notification without category, which ends the task;
\* else the notification is sent to the event bus and the platform channels.
reschedule_notification(task) ==
    /\ task \in snooze_tasks
    /\ now >= task.due
    /\ next_stamp <= MaxNotifications
    /\ LET nid == <<task.notification.template, "resend", next_stamp>>
           n == [task.notification EXCEPT
                    !.id = nid,
                    !.timestamp = now,
                    !.message = add_reminder_text(@)]
       IN /\ active_notifications' = Put(active_notifications, nid, n)
          /\ IF n.has_category
             THEN /\ sent' = Append(sent, n)
                  /\ show_custom' = send_custom_notification(show_custom, n)
             ELSE UNCHANGED <<sent, show_custom>>
          /\ lastOp' = Op("reschedule", n.project_name, NoId, nid, "none")
    /\ next_stamp' = next_stamp + 1
    /\ snooze_tasks' = snooze_tasks \ {task}
    /\ UNCHANGED <<responding, now, logVars, dirVars, busVars, selectorVars, shardVars, timerVars, sessionVars, notification_display_times,
                   notification_responses, orchVars, monitorVars>>

\* ================================================ project directory manager
\* The paths a caller passes and what the file system holds at them:
\* /work/alpha and /work/beta are directories, /link is a symbolic link to
\* /work/alpha, /work/notes.txt is a file, /missing does not exist.
Paths == {"/work/alpha", "/work/beta", "/link", "/work/notes.txt", "/missing"}
NoPath == "none"

\* Path(project_path).resolve()
Path_resolve(path) == IF path = "/link" THEN "/work/alpha" ELSE path
Path_exists(path) == path \in {"/work/alpha", "/work/beta", "/work/notes.txt"}
Path_is_dir(path) == path \in {"/work/alpha", "/work/beta"}

\* self.default_projects_root / project_name
default_path(name) == IF name = "alpha" THEN "/projects/alpha" ELSE "/projects/beta"

DirState ==
    [file |-> mappings_file, cache |-> mappings_cache, loaded |-> cache_loaded]

SetDir(D) ==
    /\ mappings_file' = D.file
    /\ mappings_cache' = D.cache
    /\ cache_loaded' = D.loaded

\* _save_mappings: the file is replaced and the cache updated, or, when the
\* write raises, nothing changes and it returns False.
save_mappings(D, mappings, save_ok) ==
    IF save_ok
    THEN [file |-> [exists |-> TRUE, project_mappings |-> mappings],
          cache |-> mappings, loaded |-> TRUE]
    ELSE D

\* load_mappings: the state it leaves and the mappings it returns; a missing
\* file is created empty.
load_mappings(D, save_ok) ==
    IF ~D.file.exists
    THEN [state |-> save_mappings(D, <<>>, save_ok), mappings |-> <<>>]
    ELSE [state |-> [D EXCEPT !.cache = D.file.project_mappings, !.loaded = TRUE],
          mappings |-> D.file.project_mappings]

\* add_project_mapping(project_name, project_path)
add_project_mapping(name, path, save_ok) ==
    /\ LET path_obj == Path_resolve(path)
           L == load_mappings(DirState, save_ok)
           valid == Path_exists(path_obj) /\ Path_is_dir(path_obj)
       IN /\ SetDir(IF valid
                    THEN save_mappings(L.state, Put(L.mappings, name, path_obj), save_ok)
                    ELSE DirState)
          /\ lastOp' = [Op("add_project_mapping", name, NoId, NoNid,
                           IF valid /\ save_ok THEN "true" ELSE "false")
                          EXCEPT !.command = path]
    /\ UNCHANGED <<now, logVars, default_projects, busVars, selectorVars, shardVars,
                   timerVars, sessionVars, notifVars, orchVars, monitorVars>>

\* remove_project_mapping(project_name)
remove_project_mapping(name, save_ok) ==
    /\ LET L == load_mappings(DirState, save_ok)
           found == name \in DOMAIN L.mappings
       IN /\ SetDir(IF found
                    THEN save_mappings(L.state, Drop(L.mappings, name), save_ok)
                    ELSE L.state)
          /\ lastOp' = Op("remove_project_mapping", name, NoId, NoNid,
                          IF found /\ save_ok THEN "true" ELSE "false")
    /\ UNCHANGED <<now, logVars, default_projects, busVars, selectorVars, shardVars,
                   timerVars, sessionVars, notifVars, orchVars, monitorVars>>

\* What get_project_path(project_name) returns in state D: the custom
\* mapping, else the directory of that name under the default projects
\* directory if there is one, else None.
project_path(D, name, save_ok) ==
    LET L == IF D.loaded THEN D ELSE load_mappings(D, save_ok).state
    IN IF name \in DOMAIN L.cache THEN L.cache[name]
       ELSE IF name \in default_projects THEN default_path(name)
       ELSE NoPath

\* get_project_path(project_name)
get_project_path(name, save_ok) ==
    /\ SetDir(IF cache_loaded THEN DirState ELSE load_mappings(DirState, save_ok).state)
    /\ lastOp' = [Op("get_project_path", name, NoId, NoNid, "none")
                    EXCEPT !.command = project_path(DirState, name, save_ok)]
    /\ UNCHANGED <<now, logVars, default_projects, busVars, selectorVars, shardVars,
                   timerVars, sessionVars, notifVars, orchVars, monitorVars>>

\* A directory of that name appears under the default projects directory,
\* as project-create makes one.
create_default_project(name) ==
    /\ name \notin default_projects
    /\ default_projects' = default_projects \cup {name}
    /\ lastOp' = Op("create_default_project", name, NoId, NoNid, "none")
    /\ UNCHANGED <<now, logVars, mappings_file, mappings_cache, cache_loaded, busVars,
                   selectorVars, shardVars, timerVars, sessionVars, notifVars,
                   orchVars, monitorVars>>

\* ========================================================= activity logger
\* log_queue = asyncio.Queue(maxsize=100): MaxQueue stands for the 100.  An
\* entry names its project and event type, and the client and command of the
\* command handler that logs it ("none": another producer).
EventTypes == {"DEPLOY_DETECTED", "TIMER_STARTED"}

\* start_processing: the queue processor task is created.
start_processing ==
    /\ ~processing_active
    /\ processing_active' = TRUE
    /\ lastOp' = Op("start_processing", NoProject, NoId, NoNid, "none")
    /\ UNCHANGED <<now, log_queue, log_waiters, activity_log, dirVars, busVars,
                   selectorVars, shardVars, timerVars, sessionVars, notifVars,
                   orchVars, monitorVars>>

\* stop_processing: the queue processor task is cancelled; the entries of the
\* queue stay in it.
stop_processing ==
    /\ processing_active
    /\ processing_active' = FALSE
    /\ lastOp' = Op("stop_processing", NoProject, NoId, NoNid, "none")
    /\ UNCHANGED <<now, log_queue, log_waiters, activity_log, dirVars, busVars,
                   selectorVars, shardVars, timerVars, sessionVars, notifVars,
                   orchVars, monitorVars>>

\* asyncio.Queue.put: the entry enters a queue that has room; the caller of
\* put on a full queue waits until a get makes room.
queue_put(Q, entry) ==
    IF Len(Q.queue) < MaxQueue
    THEN [queue |-> Append(Q.queue, entry), waiters |-> Q.waiters]
    ELSE [queue |-> Q.queue, waiters |-> Append(Q.waiters, entry)]

\* _queue_log_entry, called by log_deploy_detected, log_timer_started and
\* the other log_ methods: await self.log_queue.put(log_entry).  ret tells
\* whether the producer went on or waits in put.
queue_log_entry(p, event_type) ==
    /\ Len(activity_log) + Len(log_queue) + Len(log_waiters) < MaxLogEntries
    /\ LET entry == [project |-> p, event_type |-> event_type,
                     client |-> "none", command |-> NoCommand]
           Q == queue_put([queue |-> log_queue, waiters |-> log_waiters], entry)
       IN /\ log_queue' = Q.queue
          /\ log_waiters' = Q.waiters
          /\ lastOp' = Op("queue_log_entry", p, NoId, NoNid,
                          IF Q.waiters = log_waiters THEN "queued" ELSE "waiting")
    /\ UNCHANGED <<now, processing_active, activity_log, dirVars, busVars,
                   selectorVars, shardVars, timerVars, sessionVars, notifVars,
                   orchVars, monitorVars>>

\* One pass of _process_log_queue while processing_active: get takes the
\* oldest entry, which wakes the producer that waited longest, whose entry
\* enters the queue; _write_log_entry appends the entry to its log.  A
\* command handler that waited goes on to send its response.
process_log_queue ==
    /\ processing_active
    /\ log_queue # <<>>
    /\ activity_log' = Append(activity_log, Head(log_queue))
    /\ IF log_waiters = <<>>
       THEN /\ log_queue' = Tail(log_queue)
            /\ UNCHANGED <<log_waiters, received>>
       ELSE LET woken == Head(log_waiters)
            IN /\ log_queue' = Append(Tail(log_queue), woken)
               /\ log_waiters' = Tail(log_waiters)
               /\ received' =
                    IF woken.client \in clients
                    THEN [received EXCEPT ![woken.client] =
                            Append(@, [type |-> "response", command |-> woken.command,
                                       success |-> TRUE, message |-> <<>>, id |-> 0])]
                    ELSE received
    /\ lastOp' = [Op("process_log_queue", Head(log_queue).project, NoId, NoNid,
                     IF log_waiters = <<>> THEN "none" ELSE Head(log_waiters).client)
                    EXCEPT !.command = IF log_waiters = <<>> THEN NoCommand
                                       ELSE Head(log_waiters).command]
    /\ UNCHANGED <<registering, now, processing_active, dirVars, clients, broadcasts, published,
                   selectorVars, shardVars, timerVars, sessionVars, notifVars,
                   orchVars, monitorVars>>

\* =========================================================== client gateway
Clients == {"c1", "c2"}
Sources == {"timer", "monitor", "command"}

\* What a client is sent: the envelope's type, the command a response
\* answers, the success and message of its data, and for an event the number
\* of the broadcast call that published it, counted from 1.
Envelope(type, command, success, message) ==
    [type |-> type, command |-> command, success |-> success,
     message |-> message, id |-> 0]

Event(id, source) ==
    [type |-> "event", command |-> NoCommand, success |-> TRUE,
     message |-> <<source>>, id |-> id]

\* The welcome message register_client sends.
Connected == Envelope("system", NoCommand, TRUE, <<"connected">>)

\* The order in which a loop over the set of clients visits them.
ClientOrder == <<"c1", "c2">>

\* clients_copy = self.clients.copy()
clients_copy == SelectSeq(ClientOrder, LAMBDA c : c \in clients)

\* A send_to_client that reaches every connected client.
send_to_client_all(R, c, message) ==
    [d \in Clients |-> IF d \in clients THEN Append(R[d], message) ELSE R[d]]

\* send_to_client: websocket.send(json.dumps(message)); on a connection
\* that is closed it raises ConnectionClosed and nothing arrives.
send_to_client(R, c, message) ==
    IF c \in clients THEN [R EXCEPT ![c] = Append(@, message)] ELSE R

\* register_client: a connection registers once, when it is opened.
register_client(c) ==
    /\ c \notin clients
    /\ received[c] = <<>>
    /\ clients' = clients \cup {c}
    /\ received' = [received EXCEPT ![c] = Append(@, Connected)]
    /\ lastOp' = Op("register_client", NoProject, NoId, NoNid, c)
    /\ UNCHANGED <<registering, now, logVars, dirVars, broadcasts, published, selectorVars, shardVars, timerVars,
                   sessionVars, notifVars, orchVars, monitorVars>>

\* A register_client that adds the client and then waits before it sends
\* the welcome message.
register_client_waiting_unsent(c) ==
    /\ c \notin clients
    /\ received[c] = <<>>
    /\ clients' = clients \cup {c}
    /\ registering' = registering \cup {c}
    /\ lastOp' = Op("register_client", NoProject, NoId, NoNid, c)
    /\ UNCHANGED <<now, logVars, dirVars, broadcasts, received, published, selectorVars,
                   shardVars, timerVars, sessionVars, notifVars, orchVars, monitorVars>>

\* register_client up to the await of its send that suspends: the client is
\* added to the set, and the welcome message is handed to the connection by
\* websocket.send before the call waits for the connection to drain; no
\* await lies between the add and the send.
register_client_waiting(c) ==
    /\ c \notin clients
    /\ received[c] = <<>>
    /\ clients' = clients \cup {c}
    /\ received' = [received EXCEPT ![c] = Append(@, Connected)]
    /\ registering' = registering \cup {c}
    /\ lastOp' = Op("register_client", NoProject, NoId, NoNid, c)
    /\ UNCHANGED <<now, logVars, dirVars, broadcasts, published, selectorVars, shardVars,
                   timerVars, sessionVars, notifVars, orchVars, monitorVars>>

\* register_client after its send: it returns, and the connection's handler
\* begins to read the client's messages.
register_client_resumed(c) ==
    /\ c \in registering
    /\ registering' = registering \ {c}
    /\ lastOp' = Op("register_client_resumed", NoProject, NoId, NoNid, c)
    /\ UNCHANGED <<now, logVars, dirVars, clients, broadcasts, received, published,
                   selectorVars, shardVars, timerVars, sessionVars, notifVars, orchVars,
                   monitorVars>>

\* unregister_client
unregister_client(c) ==
    /\ c \in clients
    /\ clients' = clients \ {c}
    /\ lastOp' = Op("unregister_client", NoProject, NoId, NoNid, c)
    /\ UNCHANGED <<registering, now, logVars, dirVars, broadcasts, received, published, selectorVars, shardVars,
                   timerVars, sessionVars, notifVars, orchVars, monitorVars>>

\* broadcast(message) up to its first await that may suspend: without clients
\* it returns; else it copies the set of clients and sends to the first of
\* them, where websocket.send may wait for the connection to drain.
broadcast(source) ==
    /\ Len(published) < MaxEvents
    /\ published' = Append(published, source)
    /\ LET message == Event(Len(published) + 1, source)
       IN IF clients = {}
          THEN UNCHANGED <<broadcasts, received>>
          ELSE /\ received' = send_to_client(received, Head(clients_copy), message)
               /\ broadcasts' = IF Tail(clients_copy) = <<>> THEN broadcasts
                                ELSE broadcasts \cup
                                     {[message |-> message, rest |-> Tail(clients_copy)]}
    /\ lastOp' = OpArg("broadcast", NoProject, NoId, NoNid, source, Len(published) + 1)
    /\ UNCHANGED <<registering, now, logVars, dirVars, clients, selectorVars, shardVars, timerVars, sessionVars,
                   notifVars, orchVars, monitorVars>>

\* broadcast after a send: the next client of the copy is sent the message.
broadcast_resumed(task) ==
    /\ task \in broadcasts
    /\ received' = send_to_client(received, Head(task.rest), task.message)
    /\ broadcasts' = (broadcasts \ {task}) \cup
                        (IF Tail(task.rest) = <<>> THEN {}
                         ELSE {[task EXCEPT !.rest = Tail(@)]})
    /\ lastOp' = OpArg("broadcast_resumed", NoProject, NoId, NoNid,
                       Head(task.rest), task.message.id)
    /\ UNCHANGED <<registering, now, logVars, dirVars, clients, published, selectorVars, shardVars, timerVars,
                   sessionVars, notifVars, orchVars, monitorVars>>

\* ------------------------------------ a response that waits in a broadcast
\* The actions whose processing broadcasts a request to the clients:
\* _send_timer_status and _send_deploy_logs.
BroadcastingAction(n, action) ==
    \/ action = "view_timer" /\ n.type \in {"deploy_detected", "unified_suggestion"}
    \/ action = "view_logs" /\ n.type = "deploy_completed"

\* handle_notification_response up to the await of its broadcast that
\* suspends: the id is looked up, the response stored, the interaction
\* recorded, and the request sent to the first client of the copy; the
\* notification is still in active_notifications while the call waits.
respond_suspended(nid, action) ==
    /\ nid \in DOMAIN active_notifications
    /\ BroadcastingAction(active_notifications[nid], action)
    /\ Len(clients_copy) >= 2
    /\ Len(published) < MaxEvents
    /\ LET n == active_notifications[nid]
           message == Event(Len(published) + 1, "timer")
       IN /\ notification_responses' =
                Put(notification_responses, nid,
                    [action |-> action,
                     response_time_seconds |->
                        IF nid \in DOMAIN notification_display_times
                        THEN now - notification_display_times[nid] ELSE 0])
          /\ interactions' = record_interaction_analytics(interactions, n, action, TRUE)
          /\ published' = Append(published, "timer")
          /\ received' = send_to_client(received, Head(clients_copy), message)
          /\ responding' = Append(responding,
                                  [nid |-> nid, action |-> action, message |-> message,
                                   rest |-> Tail(clients_copy)])
          /\ lastOp' = Op(action, n.project_name, NoId, nid, "suspended")
    /\ UNCHANGED <<now, logVars, dirVars, clients, broadcasts, registering, selectorVars,
                   suggestions, next_suggestion, timerVars, sessionVars,
                   active_notifications, notification_display_times, next_stamp,
                   snooze_tasks, sent, show_custom, orchVars, monitorVars>>

\* The call after its send: the next client of the copy is sent the request;
\* after the last one the notification and its display time are popped and
\* the call returns True.
respond_resumed(i) ==
    /\ i \in DOMAIN responding
    /\ LET call == responding[i]
           others == SubSeq(responding, 1, i - 1)
                        \o SubSeq(responding, i + 1, Len(responding))
       IN /\ received' = send_to_client(received, Head(call.rest), call.message)
          /\ IF Tail(call.rest) # <<>>
             THEN /\ responding' = [responding EXCEPT ![i].rest = Tail(@)]
                  /\ lastOp' = Op(call.action, NoProject, NoId, call.nid, "suspended")
                  /\ UNCHANGED <<active_notifications, notification_display_times>>
             ELSE /\ responding' = others
                  /\ active_notifications' = Drop(active_notifications, call.nid)
                  /\ notification_display_times' =
                        Drop(notification_display_times, call.nid)
                  /\ lastOp' = Op(call.action, NoProject, NoId, call.nid, "true")
    /\ UNCHANGED <<now, logVars, dirVars, clients, broadcasts, registering, published,
                   selectorVars, shardVars, timerVars, sessionVars,
                   notification_responses, next_stamp, snooze_tasks, sent,
                   show_custom, orchVars, monitorVars>>

\* ------------------------------------------------------ the command router
\* The data of a command: a field that is missing holds NoProject, NoNid or
\* "none".
NoData ==
    [project_name |-> NoProject, duration_seconds |-> default_timer_duration,
     notification_id |-> NoNid, action |-> "none"]

\* A text that json.loads rejects, and the object a client sends.
InvalidJson == [json |-> FALSE, command |-> NoCommand, data |-> NoData]
ClientCommand(command, data) == [json |-> TRUE, command |-> command, data |-> data]

\* broadcast with every send completing at once: the event reaches the
\* clients of the copy in its order.
RECURSIVE broadcast_all(_, _, _)
broadcast_all(R, P, sources) ==
    IF sources = <<>> THEN [received |-> R, published |-> P]
    ELSE LET message == Event(Len(P) + 1, Head(sources))
         IN broadcast_all([d \in Clients |->
                              IF d \in clients THEN Append(R[d], message) ELSE R[d]],
                          Append(P, Head(sources)), Tail(sources))

\* A response envelope that leaves its command field empty.
Response_unnamed(command, success, message) ==
    Envelope("response", NoCommand, success, message)

\* The response envelope of handle_client_message: the command is echoed.
Response(command, success, message) == Envelope("response", command, success, message)

\* The end of a timer command that succeeded: the activity logger's
\* log_timer_started or log_timer_stopped, then the response; the handler
\* that finds the queue full waits in put before it responds.
LogThenRespond(c, R, command, p, event_type) ==
    LET entry == [project |-> p, event_type |-> event_type,
                  client |-> c, command |-> command]
        Q == queue_put([queue |-> log_queue, waiters |-> log_waiters], entry)
    IN /\ log_queue' = Q.queue
       /\ log_waiters' = Q.waiters
       /\ received' = IF Q.waiters = log_waiters
                      THEN send_to_client(R, c, Response(command, TRUE, <<>>))
                      ELSE R
       /\ lastOp' = [OpArg("handle_client_message", p, NoId, NoNid, c,
                           IF Q.waiters = log_waiters THEN 1 ELSE 2)
                        EXCEPT !.command = command]

\* handle_client_message(websocket, message_str): json.loads, process_command,
\* and one send_to_client to the websocket the message came from.  lastOp.arg
\* is 0 for a text that is no JSON, 1 when the handler has answered, 2 when it
\* waits in the activity logger's put.
handle_client_message(c, msg) ==
    /\ c \in clients
    /\ IF ~msg.json
       THEN /\ received' = send_to_client(received, c,
                              Envelope("error", NoCommand, FALSE, <<"Invalid JSON format">>))
            /\ lastOp' = OpArg("handle_client_message", NoProject, NoId, NoNid, c, 0)
            /\ UNCHANGED <<logVars, published, timerVars, sessionVars, notifVars, shardVars>>
       ELSE LET command == msg.command
                data == msg.data
                p == data.project_name
            IN CASE command = "ping" ->
                      /\ received' = send_to_client(received, c, Response(command, TRUE, <<"pong">>))
                      /\ lastOp' = [OpArg("handle_client_message", NoProject, NoId, NoNid, c, 1)
                                       EXCEPT !.command = command]
                      /\ UNCHANGED <<logVars, published, timerVars, sessionVars,
                                     notifVars, shardVars>>
                 [] command = "timer-start" /\ p = NoProject ->
                      /\ received' = send_to_client(received, c,
                                        Response(command, FALSE, <<"No project specified">>))
                      /\ lastOp' = [OpArg("handle_client_message", NoProject, NoId, NoNid, c, 1)
                                       EXCEPT !.command = command]
                      /\ UNCHANGED <<logVars, published, timerVars, sessionVars,
                                     notifVars, shardVars>>
                 [] command = "timer-start" /\ p # NoProject ->
                      LET B == broadcast_all(received, published,
                                   IF p \in DOMAIN active_timers
                                   THEN <<"timer", "timer">> ELSE <<"timer">>)
                      IN /\ SetEngine(start_timer(TimerEngine, p, data.duration_seconds,
                                                  NoCommand, now))
                         /\ published' = B.published
                         /\ LogThenRespond(c, B.received, command, p, "TIMER_STARTED")
                         /\ UNCHANGED <<processing_active, activity_log, sessionVars,
                                        notifVars, shardVars>>
                 [] command = "timer-stop" /\ p # NoProject
                        /\ stop_timer_result(TimerEngine, p) ->
                      LET B == broadcast_all(received, published, <<"timer">>)
                      IN /\ SetEngine(stop_timer(TimerEngine, p))
                         /\ published' = B.published
                         /\ LogThenRespond(c, B.received, command, p, "TIMER_STOPPED")
                         /\ UNCHANGED <<processing_active, activity_log, sessionVars,
                                        notifVars, shardVars>>
                 [] command = "timer-stop" /\ ~(p # NoProject
                        /\ stop_timer_result(TimerEngine, p)) ->
                      /\ received' = send_to_client(received, c,
                                        Response(command, FALSE,
                                                 IF p = NoProject THEN <<"No project specified">>
                                                 ELSE <<>>))
                      /\ lastOp' = [OpArg("handle_client_message", p, NoId, NoNid, c, 1)
                                       EXCEPT !.command = command]
                      /\ UNCHANGED <<logVars, published, timerVars, sessionVars,
                                     notifVars, shardVars>>
                 [] command = "notification-response"
                        /\ (data.notification_id = NoNid \/ data.action = "none") ->
                      /\ received' = send_to_client(received, c,
                                        Response(command, FALSE,
                                                 <<"Missing notification_id or action">>))
                      /\ lastOp' = [OpArg("handle_client_message", NoProject, NoId, NoNid, c, 1)
                                       EXCEPT !.command = command]
                      /\ UNCHANGED <<logVars, published, timerVars, sessionVars,
                                     notifVars, shardVars>>
                 [] command = "notification-response"
                        /\ data.notification_id # NoNid /\ data.action # "none" ->
                      LET nid == data.notification_id
                          found == nid \in DOMAIN active_notifications
                      IN /\ IF found
                            THEN /\ SetRespond(Respond(RespondState, nid, data.action,
                                                       NoExtra, TRUE, now))
                                 /\ UNCHANGED <<saved_sessions, next_session, next_stamp,
                                                sent, show_custom, suggestions, next_suggestion>>
                            ELSE UNCHANGED <<sessionVars, notifVars, shardVars>>
                         /\ received' = send_to_client(received, c,
                                           Response(command, found,
                                                    <<"Notification response processed">>))
                         /\ lastOp' = [OpArg("handle_client_message", NoProject, NoId, nid, c, 1)
                                          EXCEPT !.command = command]
                         /\ UNCHANGED <<logVars, published, timerVars>>
                 [] OTHER ->
                      /\ received' = send_to_client(received, c,
                                        Response(command, FALSE,
                                                 <<"Unknown command:", command>>))
                      /\ lastOp' = [OpArg("handle_client_message", NoProject, NoId, NoNid, c, 1)
                                       EXCEPT !.command = command]
                      /\ UNCHANGED <<logVars, published, timerVars, sessionVars,
                                     notifVars, shardVars>>
    /\ UNCHANGED <<responding, registering, now, dirVars, clients, broadcasts, selectorVars, orchVars, monitorVars>>

\* ============================================================ orchestrator
\* What a project's TODO.md offers: no pending task, pending tasks of which
\* none passes the selector's context filter, or a task the selector returns.
TodoStates == {"none", "filtered", "suitable"}

\* _check_tasks_available: is there a pending task
check_tasks_available(t) == t # "none"

\* select_best_task on the TODO.md as it is when the grace period ends; it
\* raises when reading the file or the analytics store fails.
select_best_task(t, selector_ok) ==
    IF ~selector_ok THEN "error"
    ELSE IF t = "suitable" THEN "task" ELSE "none"

\* An on_deploy_detected that sends deploy_detected whether or not a task is
\* pending, and schedules the unified notification as well.
on_deploy_detected_both(p, command, grace) ==
    /\ Len(deploys) < MaxDeploys
    /\ now + grace <= MaxClock
    /\ deploy_detected' = TRUE
    /\ SetEngine(start_timer(TimerEngine, p, default_timer_duration, command, now))
    /\ LET i == Len(deploys) + 1
           tasks_available == check_tasks_available(todo[p])
       IN /\ deploys' = Append(deploys,
                [project |-> p, command |-> command, has_tasks |-> tasks_available,
                 time |-> now, due |-> now + grace,
                 outcome |-> IF tasks_available THEN "pending" ELSE "immediate"])
          /\ SetNotif(send_notification(NotifState, "deploy_detected", p, NoTaskData, i, now))
          /\ lastOp' = OpArg("on_deploy_detected", p, NoId, NoNid, "none", i)
    /\ UNCHANGED <<responding, now, logVars, dirVars, busVars, selectorVars, shardVars, sessionVars, notification_responses, snooze_tasks, todo,
                   monitorVars>>

\* on_deploy_detected: the timer of 1800 s is started; with a pending task the
\* unified notification is handed to a new task that first sleeps the grace
\* period, else deploy_detected is sent at once.  grace is
\* notification_manager.preferences["grace_period"] at the time of the call.
on_deploy_detected(p, command, grace) ==
    /\ Len(deploys) < MaxDeploys
    /\ now + grace <= MaxClock
    /\ deploy_detected' = TRUE
    /\ SetEngine(start_timer(TimerEngine, p, default_timer_duration, command, now))
    /\ LET i == Len(deploys) + 1
           tasks_available == check_tasks_available(todo[p])
       IN /\ deploys' = Append(deploys,
                [project |-> p, command |-> command, has_tasks |-> tasks_available,
                 time |-> now, due |-> now + grace,
                 outcome |-> IF tasks_available THEN "pending" ELSE "immediate"])
          /\ IF tasks_available
             THEN UNCHANGED <<active_notifications, notification_display_times,
                              next_stamp, sent, show_custom>>
             ELSE SetNotif(send_notification(NotifState, "deploy_detected", p,
                                             NoTaskData, i, now))
          /\ lastOp' = OpArg("on_deploy_detected", p, NoId, NoNid, "none", i)
    /\ UNCHANGED <<responding, now, logVars, dirVars, busVars, selectorVars, shardVars, sessionVars, notification_responses, snooze_tasks, todo,
                   monitorVars>>

\* _schedule_unified_notification after its sleep: the selected task goes out
\* as unified_suggestion; no task, or an exception, falls back to
\* deploy_detected.
schedule_unified_notification(i, selector_ok) ==
    /\ i \in DOMAIN deploys
    /\ deploys[i].outcome = "pending"
    /\ now >= deploys[i].due
    /\ LET p == deploys[i].project
           selected == select_best_task(todo[p], selector_ok)
       IN /\ deploys' = [deploys EXCEPT ![i].outcome = selected]
          /\ IF selected = "task"
             THEN /\ suggestions' = AppendTo(suggestions, p,
                            [id |-> next_suggestion, task_text |-> <<"task">>])
                  /\ next_suggestion' = next_suggestion + 1
                  /\ SetNotif(send_notification(NotifState, "unified_suggestion", p,
                            TaskData(<<"task">>, next_suggestion), i, now))
             ELSE /\ UNCHANGED <<suggestions, next_suggestion>>
                  /\ SetNotif(send_notification(NotifState, "deploy_detected", p,
                            NoTaskData, i, now))
          /\ lastOp' = OpArg("schedule_unified_notification", p, NoId, NoNid, "none", i)
    /\ UNCHANGED <<responding, now, logVars, dirVars, busVars, selectorVars, interactions, timerVars, sessionVars,
                   notification_responses, snooze_tasks, todo, deploy_detected,
                   monitorVars>>

\* on_deploy_completed of the legacy copy src/langgraph/graph.py, which stops
\* the project's timer.
on_deploy_completed_stopping(p) ==
    /\ deploy_detected' = FALSE
    /\ SetEngine(stop_timer(TimerEngine, p))
    /\ lastOp' = Op("on_deploy_completed", p, NoId, NoNid, "none")
    /\ UNCHANGED <<now, logVars, dirVars, busVars, selectorVars, shardVars, sessionVars, notifVars, deploys, todo, monitorVars>>

\* on_deploy_completed: the flag is cleared and the event logged and
\* broadcast; the timer is left alone.
on_deploy_completed(p) ==
    /\ deploy_detected' = FALSE
    /\ lastOp' = Op("on_deploy_completed", p, NoId, NoNid, "none")
    /\ UNCHANGED <<now, logVars, dirVars, busVars, selectorVars, shardVars, timerVars, sessionVars, notifVars, deploys, todo, monitorVars>>

\* The user edits a project's TODO.md.
EditTodo(p, t) ==
    /\ t # todo[p]
    /\ todo' = [todo EXCEPT ![p] = t]
    /\ lastOp' = Op("edit_todo", p, NoId, NoNid, "none")
    /\ UNCHANGED <<now, logVars, dirVars, busVars, selectorVars, shardVars, timerVars, sessionVars, notifVars, deploys, deploy_detected,
                   monitorVars>>

\* ============================================================ deploy monitor
\* A log file is the sequence of its lines, written whole by the deploy
\* wrapper; sizes and positions are counted in lines.
LineKinds == {"DEPLOY", "DEPLOY_COMPLETE", "other"}

\* The name under which ~/.deploybot/deploy_log.txt is monitored.
GlobalLog == "_global"

\* _monitoring_loop asleep between two ticks.  pending: the projects the
\* `for` of the tick has not reached yet; size: len(monitored_projects) when
\* the `for` began; events: the events of the slice not yet handled.
IdleMonitor == [pc |-> "idle", project |-> NoProject, current_size |-> 0,
                pending |-> <<>>, events |-> <<>>, size |-> 0]

\* _parse_deploy_line: the event type of a line, or none
parse_deploy_line(kind) ==
    IF kind = "DEPLOY" THEN "deploy_start"
    ELSE IF kind = "DEPLOY_COMPLETE" THEN "deploy_complete"
    ELSE "none"

\* _parse_deploy_events on the lines first..last of a file: one event per
\* line that parses, with the line it came from.
RECURSIVE parse_deploy_events(_, _, _, _)
parse_deploy_events(p, file, first, last) ==
    IF first > last THEN <<>>
    ELSE LET rest == parse_deploy_events(p, file, first + 1, last)
             type == parse_deploy_line(file[first])
         IN IF type = "none" THEN rest
            ELSE <<[project |-> p, line |-> first, type |-> type]>> \o rest

Monitored == {monitored_projects[i] : i \in DOMAIN monitored_projects}

\* The places where another coroutine can run between two steps of the
\* monitor: its sleep between ticks and the awaits of _handle_deploy_event.
MonitorAwaits ==
    \/ monitor_task.pc = "handle"
    \/ monitor_task.pc = "idle" /\ monitor_task.pending = <<>>

\* An add_project that starts every log at position 0.
add_project_replaying(p) ==
    /\ MonitorAwaits
    /\ monitored_projects' =
            IF p \in Monitored THEN monitored_projects ELSE Append(monitored_projects, p)
    /\ log_exists' = log_exists \cup {p}
    /\ last_known_positions' = Put(last_known_positions, p, 0)
    /\ lastOp' = Op("add_project", p, NoId, NoNid, "true")
    /\ UNCHANGED <<now, logVars, dirVars, busVars, selectorVars, shardVars, timerVars,
                   sessionVars, notifVars, orchVars, log_files, monitor_task, emitted>>

\* add_project: the project's entry is stored (a project already monitored
\* keeps its place in the dict) and monitoring starts from the end of the
\* log as it is; a log that does not exist is created and starts at 0.
add_project(p) ==
    /\ MonitorAwaits
    /\ monitored_projects' =
            IF p \in Monitored THEN monitored_projects ELSE Append(monitored_projects, p)
    /\ log_exists' = log_exists \cup {p}
    /\ last_known_positions' =
            Put(last_known_positions, p,
                IF p \in log_exists THEN Len(log_files[p]) ELSE 0)
    /\ lastOp' = Op("add_project", p, NoId, NoNid, "true")
    /\ UNCHANGED <<now, logVars, dirVars, busVars, selectorVars, shardVars, timerVars,
                   sessionVars, notifVars, orchVars, log_files, monitor_task, emitted>>

\* start_monitoring while monitoring is not active: _add_global_log_monitoring
\* creates the global log when it is missing, stores the entry "_global" and
\* sets its position to the size of the file.
start_monitoring ==
    /\ GlobalLog \notin Monitored
    /\ monitor_task = IdleMonitor
    /\ monitored_projects' = Append(monitored_projects, GlobalLog)
    /\ log_exists' = log_exists \cup {GlobalLog}
    /\ last_known_positions' =
            Put(last_known_positions, GlobalLog, Len(log_files[GlobalLog]))
    /\ lastOp' = Op("start_monitoring", GlobalLog, NoId, NoNid, "true")
    /\ UNCHANGED <<now, logVars, dirVars, busVars, selectorVars, shardVars, timerVars,
                   sessionVars, notifVars, orchVars, log_files, monitor_task, emitted>>

\* The deploy wrapper, another process, appends a line; the first append
\* creates the file.
WrapperAppend(p, kind) ==
    /\ Len(log_files[p]) < MaxLines
    /\ log_files' = [log_files EXCEPT ![p] = Append(@, kind)]
    /\ log_exists' = log_exists \cup {p}
    /\ lastOp' = Op("wrapper_append", p, NoId, NoNid, "none")
    /\ UNCHANGED <<now, logVars, dirVars, busVars, selectorVars, shardVars, timerVars,
                   sessionVars, notifVars, orchVars, monitored_projects,
                   last_known_positions, monitor_task, emitted>>

\* _monitoring_loop wakes from its sleep and begins the `for` over
\* monitored_projects.items().
monitoring_loop ==
    /\ monitor_task = IdleMonitor
    /\ GlobalLog \in Monitored
    /\ monitor_task' = [IdleMonitor EXCEPT !.pending = monitored_projects,
                                           !.size = Len(monitored_projects)]
    /\ lastOp' = Op("monitoring_loop", NoProject, NoId, NoNid, "none")
    /\ UNCHANGED <<now, logVars, dirVars, busVars, selectorVars, shardVars, timerVars,
                   sessionVars, notifVars, orchVars, log_files, log_exists,
                   monitored_projects, last_known_positions, emitted>>

\* The `for` that has no item left ends, and the loop sleeps.
EndOfFor(M) == IF M.pc = "idle" /\ M.pending = <<>> THEN IdleMonitor ELSE M

\* The `for` takes its next item after a check that awaited: the dict
\* iterator raises RuntimeError when the dict changed size since the `for`
\* began, the loop's handler logs it and sleeps, and the tick is over.
NextItem(M) ==
    IF M.size # Len(monitored_projects) THEN IdleMonitor
    ELSE EndOfFor([M EXCEPT !.pc = "idle", !.project = NoProject,
                            !.current_size = 0, !.events = <<>>])

\* A tick that stops at the first read error.
ReadFailed_stopping(M) == IdleMonitor

\* The check of a project whose read raised: the handler of
\* _check_project_for_deploys logs the error and returns to the `for`.
ReadFailed(M) ==
    EndOfFor([M EXCEPT !.pc = "idle", !.project = NoProject, !.current_size = 0])

\* _check_project_for_deploys up to its size check: a log that does not
\* exist is skipped, stat().st_size is compared with the last position.
check_project_stat(p) ==
    /\ monitor_task.pc = "idle"
    /\ monitor_task.pending # <<>>
    /\ p = Head(monitor_task.pending)
    /\ LET current_size == Len(log_files[p])
           last_position == IF p \in DOMAIN last_known_positions
                            THEN last_known_positions[p] ELSE 0
           rest == [monitor_task EXCEPT !.pending = Tail(@)]
       IN monitor_task' = IF p \notin log_exists \/ current_size <= last_position
                          THEN EndOfFor(rest)
                          ELSE [rest EXCEPT !.pc = "read", !.project = p,
                                            !.current_size = current_size]
    /\ lastOp' = Op("check_project_stat", p, NoId, NoNid, "none")
    /\ UNCHANGED <<now, logVars, dirVars, busVars, selectorVars, shardVars, timerVars,
                   sessionVars, notifVars, orchVars, log_files, log_exists,
                   monitored_projects, last_known_positions, emitted>>

\* _check_project_for_deploys from its open() to the parsing: the file is
\* read from the last position to its end, the position becomes the size
\* found by the size check, and the events parsed from what was read wait
\* for their handling.  When open() or read() raises, nothing of that
\* happened.
check_project_read(read_ok) ==
    /\ monitor_task.pc = "read"
    /\ LET p == monitor_task.project
           new_events == parse_deploy_events(p, log_files[p],
                              last_known_positions[p] + 1, Len(log_files[p]))
       IN IF read_ok
          THEN /\ last_known_positions' =
                    [last_known_positions EXCEPT ![p] = monitor_task.current_size]
               /\ monitor_task' = IF new_events = <<>> THEN NextItem(monitor_task)
                                  ELSE [monitor_task EXCEPT !.pc = "handle",
                                                            !.events = new_events]
               /\ lastOp' = OpArg("check_project_read", p, NoId, NoNid, "none",
                                  last_known_positions[p])
          ELSE /\ monitor_task' = ReadFailed(monitor_task)
               /\ lastOp' = OpArg("check_project_read", p, NoId, NoNid, "error",
                                  last_known_positions[p])
               /\ UNCHANGED last_known_positions
    /\ UNCHANGED <<now, logVars, dirVars, busVars, selectorVars, shardVars, timerVars,
                   sessionVars, notifVars, orchVars, log_files, log_exists,
                   monitored_projects, emitted>>

\* _handle_deploy_event: the next event of the slice goes to the callbacks;
\* after the last one the check returns to the `for`.
handle_deploy_event ==
    /\ monitor_task.pc = "handle"
    /\ emitted' = Append(emitted, Head(monitor_task.events))
    /\ monitor_task' = IF Tail(monitor_task.events) = <<>> THEN NextItem(monitor_task)
                       ELSE [monitor_task EXCEPT !.events = Tail(@)]
    /\ lastOp' = OpArg("handle_deploy_event", Head(monitor_task.events).project,
                       NoId, NoNid, "none", Head(monitor_task.events).line)
    /\ UNCHANGED <<now, logVars, dirVars, busVars, selectorVars, shardVars, timerVars,
                   sessionVars, notifVars, orchVars, log_files, log_exists,
                   monitored_projects, last_known_positions>>

\* ------------------------------------------- specification: the timer engine
TimerDurations == {-5, 0, 5, 10}
ExtendDeltas == {-5, 5}
TimerSteps == {5}
\* The project whose timer is also paused, resumed and extended; the other
\* project's timer is only started and stopped.
PausedProjects == {"alpha"}
StartDurations(p) == IF p \in PausedProjects THEN TimerDurations ELSE {5}

\* The state after construction: no timer, session, notification or deploy,
\* nothing monitored, empty logs.
Init ==
    /\ now = 0
    /\ active_timers = <<>>
    /\ timer_keys = <<>>
    /\ ticker = IdleTicker
    /\ active_sessions = <<>>
    /\ saved_sessions = <<>>
    /\ next_session = 1
    /\ active_notifications = <<>>
    /\ notification_display_times = <<>>
    /\ notification_responses = <<>>
    /\ next_stamp = 1
    /\ snooze_tasks = {}
    /\ responding = <<>>
    /\ sent = <<>>
    /\ show_custom = <<>>
    /\ deploys = <<>>
    /\ todo = [p \in Projects |-> "none"]
    /\ deploy_detected = FALSE
    /\ log_files = [p \in Projects \cup {GlobalLog} |-> <<>>]
    /\ log_exists = {}
    /\ monitored_projects = <<>>
    /\ last_known_positions = <<>>
    /\ monitor_task = IdleMonitor
    /\ emitted = <<>>
    /\ task_cache = <<>>
    /\ selected_task = NoSelection
    /\ suggestions = <<>>
    /\ interactions = <<>>
    /\ next_suggestion = 1
    /\ clients = {}
    /\ broadcasts = {}
    /\ registering = {}
    /\ received = [c \in Clients |-> <<>>]
    /\ published = <<>>
    /\ log_queue = <<>>
    /\ processing_active = FALSE
    /\ log_waiters = <<>>
    /\ activity_log = <<>>
    /\ mappings_file = [exists |-> FALSE, project_mappings |-> <<>>]
    /\ mappings_cache = <<>>
    /\ cache_loaded = FALSE
    /\ default_projects = {}
    /\ lastOp = Op("init", NoProject, NoId, NoNid, "none")

NextTimer ==
    \/ \E p \in Projects : \E d \in StartDurations(p), c \in Commands :
            TimerStartCommand(p, d, c)
    \/ \E p \in Projects : TimerStopCommand(p)
    \/ \E p \in PausedProjects : pause_timer(p)
    \/ \E p \in PausedProjects : resume_timer(p)
    \/ \E p \in PausedProjects, d \in ExtendDeltas : extend_timer(p, d)
    \/ timer_update_loop
    \/ handle_timer_expiry
    \/ \E d \in TimerSteps : AdvanceTime(d, MaxTimerClock)

SpecTimer == Init /\ [][NextTimer]_vars

\* ------------------- specification: the update loop beside starts and stops
\* Timers of both projects are started and stopped while a pass of the update
\* loop may be waiting in an update it sends.
TickDurations == {0, 5}
TickCommands == Commands \cup {"vercel --prod"}

NextTick ==
    \/ \E p \in Projects, d \in TickDurations, c \in TickCommands :
            TimerStartCommand(p, d, c)
    \/ \E p \in Projects : TimerStopCommand(p)
    \/ timer_update_loop
    \/ \E k \in 1..Cardinality(Projects) : timer_update_suspended(k)
    \/ timer_update_resumed
    \/ handle_timer_expiry
    \/ \E d \in TimerSteps : AdvanceTime(d, MaxTimerClock)

SpecTick == Init /\ [][NextTick]_vars

\* --------------------------------------- specification: the task selector
BackendLine == [done |-> FALSE, text |-> <<"fix", "api">>, tags |-> <<"#backend">>]
LongLine == [done |-> FALSE, text |-> <<"write", "docs">>, tags |-> <<"#long", "#writing">>]
ShortLine == [done |-> FALSE, text |-> <<"review", "pr">>, tags |-> <<"#short">>]
DoneLine == [done |-> TRUE, text |-> <<"review", "pr">>, tags |-> <<"#short">>]
KeywordLine == [done |-> FALSE, text |-> <<"implement", "cache">>, tags |-> <<>>]
UpperLine == [done |-> FALSE, text |-> <<"tune", "db">>, tags |-> <<"#Backend", "#urgent">>]
PlainLine == [done |-> FALSE, text |-> <<"call", "bank">>, tags |-> <<>>]
SoloLine == [done |-> FALSE, text |-> <<"sketch", "logo">>, tags |-> <<"#solo">>]
UrgentLine == [done |-> FALSE, text |-> <<"pay", "rent">>, tags |-> <<"#urgent">>]
ResearchLine == [done |-> FALSE, text |-> <<"read", "paper">>,
                 tags |-> <<"#urgent", "#important", "#research">>]
CreativeLine == [done |-> FALSE, text |-> <<"draw", "icon">>,
                 tags |-> <<"#creative", "#someday", "#low">>]

\* The TODO.md files select_best_task is given.
TodoFiles ==
    {<<>>, <<DoneLine>>, <<BackendLine, UpperLine>>, <<LongLine, KeywordLine>>,
     <<BackendLine, ShortLine>>, <<DoneLine, PlainLine>>, <<UpperLine, LongLine>>}

Contexts ==
    [deploy_active : BOOLEAN, timer_duration : {900, 1800}, use_llm : BOOLEAN,
     current_hour : {12}]

\* What the model answers: nothing in time, or a selected_task text.
Responses ==
    {NoResponse} \cup
    [ok : {TRUE},
     selected_task : {<<"fix", "api">>, <<"write", "docs">>, <<"pr">>,
                      <<"call", "bank">>}]

\* The model is asked only when a client is configured and the context asks
\* for it.
NextSelector ==
    \E p \in Projects, context \in Contexts, client \in BOOLEAN,
       response \in Responses, save_ok \in BOOLEAN :
        /\ (client /\ context.use_llm) \/ response = NoResponse
        /\ \E file \in TodoFiles :
                SelectBestTask(p, file, context, client, response, save_ok)

SpecSelector == Init /\ [][NextSelector]_vars

\* The selector on one project over TODO.md files whose tasks tie on the
\* heuristic score, reach the ends of the priority scale or are all filtered
\* out, at noon and in the evening.
RankingFiles ==
    {<<>>, <<DoneLine>>, <<SoloLine, UrgentLine>>, <<ResearchLine>>,
     <<CreativeLine>>, <<BackendLine, UpperLine>>, <<LongLine, KeywordLine>>}

RankingContexts ==
    [deploy_active : BOOLEAN, timer_duration : {1800}, use_llm : BOOLEAN,
     current_hour : {12, 20}]

NextRanking ==
    \E context \in RankingContexts, client \in BOOLEAN,
       response \in Responses, save_ok \in BOOLEAN :
        /\ (client /\ context.use_llm) \/ response = NoResponse
        /\ \E file \in RankingFiles :
                SelectBestTask("alpha", file, context, client, response, save_ok)

SpecRanking == Init /\ [][NextRanking]_vars

\* ---------------------------- specification: sessions and notifications
NotifyTemplates == {"task_suggestion", "unified_suggestion"}
RespondActions == {"switch_now", "switch_to_task", "snooze_5min", "dismiss"}
SessionDurations == {900, 1800}
SessionStatuses == {"completed", "cancelled"}
NotifySteps == {300}
NotifyProjects == {"alpha"}

\* The ids a client can answer with: those of the notifications it was shown.
KnownIds == DOMAIN active_notifications \cup DOMAIN notification_responses

NextNotify ==
    \/ \E t \in NotifyTemplates, p \in NotifyProjects : Notify(t, p)
    \/ \E nid \in KnownIds, a \in RespondActions :
            handle_notification_response(nid, a, NoExtra, TRUE)
    \/ \E task \in snooze_tasks : reschedule_notification(task)
    \/ \E p \in NotifyProjects, c \in Commands :
            /\ next_session <= 1
            /\ start_deploy_session(p, c, default_timer_duration)
    \/ \E sid \in 1..MaxSessions : end_deploy_session(sid, "completed", TRUE)
    \/ \E sid \in 1..MaxSessions : update_session_task_counts(sid, 1, 1)
    \/ \E d \in NotifySteps : AdvanceTime(d, MaxNotifyClock)

NextSession ==
    \/ \E p \in Projects, c \in Commands, d \in SessionDurations :
            start_deploy_session(p, c, d)
    \/ \E sid \in 1..MaxSessions, st \in SessionStatuses, ok \in BOOLEAN :
            end_deploy_session(sid, st, ok)
    \/ \E sid \in 0..MaxSessions, p \in Projects \cup {NoProject} :
            record_switch_button_press(sid, p)
    \/ \E d \in NotifySteps : AdvanceTime(d, MaxNotifyClock)

SpecSession == Init /\ [][NextSession]_vars

SpecNotify == Init /\ [][NextNotify]_vars

\* ------------------------------ specification: responses and snoozes
\* A task whose text holds the word "(Reminder)".
ReminderLine == [done |-> FALSE, text |-> <<"pay", "(Reminder)", "rent">>, tags |-> <<>>]

SnoozeFiles == {<<PlainLine>>, <<ReminderLine>>}
SnoozeProjects == {"alpha"}
SnoozeRespondActions == {"snooze", "dismiss", "auto_dismiss"}
Extras == {NoExtra, [snooze_minutes |-> NotANumber]}
SnoozeClockSteps == {300}

\* The records written to the interactions shards so far.
InteractionCount ==
    LET RECURSIVE Total(_)
        Total(S) == IF S = {} THEN 0
                    ELSE LET p == CHOOSE q \in S : TRUE
                         IN Len(interactions[p]) + Total(S \ {p})
    IN Total(DOMAIN interactions)

NextSnooze ==
    \/ \E p \in SnoozeProjects, file \in SnoozeFiles :
            /\ next_suggestion <= MaxSuggestions
            /\ Week3Workflow(p, file, TRUE)
    \/ \E p \in SnoozeProjects : Notify("unified_suggestion", p)
    \/ \E p \in SnoozeProjects : TestSnoozeQuick(p)
    \/ \E nid \in KnownIds, a \in SnoozeRespondActions, extra \in Extras, ok \in BOOLEAN :
            /\ InteractionCount < MaxInteractions
            /\ handle_notification_response(nid, a, extra, ok)
    \/ \E ok \in BOOLEAN :
            /\ InteractionCount < MaxInteractions
            /\ dismiss_all_notifications(ok)
    \/ \E task \in snooze_tasks : reschedule_notification(task)
    \/ \E p \in SnoozeProjects : TimerStartCommand(p, 300, "firebase deploy")
    \/ \E p \in SnoozeProjects : TimerStopCommand(p)
    \/ \E d \in SnoozeClockSteps : AdvanceTime(d, MaxNotifyClock)

SpecSnooze == Init /\ [][NextSnooze]_vars

\* The event loop runs a _reschedule_notification task whose sleep is over,
\* and time passes.
SpecSnoozeLive ==
    /\ SpecSnooze
    /\ WF_vars(\E task \in snooze_tasks : reschedule_notification(task))
    /\ WF_vars(\E d \in SnoozeClockSteps : AdvanceTime(d, MaxNotifyClock))

\* ------------------------------------- specification: snoozes and reminders
\* Notifications that are answered at once or later, with a snooze of no
\* minutes, of the default 5 minutes or of an action's own length.
ReminderTemplates == {"unified_suggestion", "deploy_detected"}
ReminderActions == {"snooze", "snooze_5min", "dismiss"}
ReminderExtras == {NoExtra, [snooze_minutes |-> 0]}

NextReminder ==
    \/ \E t \in ReminderTemplates : Notify(t, "alpha")
    \/ \E nid \in KnownIds, a \in ReminderActions, extra \in ReminderExtras :
            /\ InteractionCount < MaxInteractions
            /\ handle_notification_response(nid, a, extra, TRUE)
    \/ \E task \in snooze_tasks : reschedule_notification(task)
    \/ \E d \in SnoozeClockSteps : AdvanceTime(d, MaxNotifyClock)

SpecReminder == Init /\ [][NextReminder]_vars

\* --------------------------- specification: the ids of notifications
\* Notifications of two templates are sent for two projects, some of them
\* within one millisecond, dismissed, snoozed for no time and re-emitted.
IdTemplates == {"deploy_detected", "timer_expiry"}
IdActions == {"dismiss", "snooze"}

NextIds ==
    \/ \E t \in IdTemplates, p \in Projects : Notify(t, p)
    \/ \E t \in IdTemplates, p \in Projects : NotifyInSameMillisecond(t, p)
    \/ \E nid \in DOMAIN active_notifications, a \in IdActions :
            handle_notification_response(nid, a, [snooze_minutes |-> 0], TRUE)
    \/ \E task \in snooze_tasks : reschedule_notification(task)

SpecIds == Init /\ [][NextIds]_vars

\* ------------------- specification: responses that overlap on one id
\* Two clients answer the notifications of one project; an answer that asks
\* for the timer waits in the broadcast of its request.
OverlapTemplates == {"deploy_detected", "unified_suggestion"}

NextOverlap ==
    \/ \E c \in Clients : register_client(c)
    \/ \E t \in OverlapTemplates : Notify(t, "alpha")
    \/ \E nid \in DOMAIN active_notifications : respond_suspended(nid, "view_timer")
    \/ \E i \in DOMAIN responding : respond_resumed(i)
    \/ \E nid \in DOMAIN active_notifications \cup DOMAIN notification_responses :
            handle_notification_response(nid, "dismiss", NoExtra, TRUE)

SpecOverlap == Init /\ [][NextOverlap]_vars

\* ------------------- specification: events published during a connect
\* Clients connect while events are broadcast; a registration may wait in the
\* send of its welcome message, a broadcast in the send to one client.
NextConnect ==
    \/ \E c \in Clients : register_client_waiting(c)
    \/ \E c \in Clients : register_client_resumed(c)
    \/ \E c \in Clients : c \notin registering /\ unregister_client(c)
    \/ \E source \in Sources : broadcast(source)
    \/ \E task \in broadcasts : broadcast_resumed(task)

SpecConnect == Init /\ [][NextConnect]_vars

\* ------------------------------------------ specification: the gateway
NextBus ==
    \/ \E c \in Clients : register_client(c)
    \/ \E c \in Clients : unregister_client(c)
    \/ \E source \in Sources : broadcast(source)
    \/ \E task \in broadcasts : broadcast_resumed(task)

SpecBus == Init /\ [][NextBus]_vars

\* ---------------------------------- specification: the command router
\* Two clients send texts and commands while a timer_expiry notification may
\* be active and the activity logger's queue processor may be running.
GatewayProjects == {"alpha"}
GatewayNotification == <<"timer_expiry", "new", 1>>
GatewayMessages ==
    {InvalidJson,
     ClientCommand("ping", NoData),
     ClientCommand("bogus", NoData),
     ClientCommand("notification-response", NoData),
     ClientCommand("notification-response",
                   [NoData EXCEPT !.notification_id = GatewayNotification,
                                  !.action = "dismiss"]),
     ClientCommand("timer-start", NoData),
     ClientCommand("timer-start", [NoData EXCEPT !.project_name = "alpha"]),
     ClientCommand("timer-stop", [NoData EXCEPT !.project_name = "alpha"])}

IsAnswer(message) == message.type \in {"response", "error"}

RECURSIVE AnswerCount(_)
AnswerCount(cs) ==
    IF cs = {} THEN 0
    ELSE LET c == CHOOSE x \in cs : TRUE
         IN Len(SelectSeq(received[c], IsAnswer)) + AnswerCount(cs \ {c})

\* The commands handled so far: the answered ones and the ones that wait.
CommandCount == AnswerCount(Clients) + Len(log_waiters)

NextGateway ==
    \/ \E c \in Clients : register_client(c)
    \/ \E c \in Clients : unregister_client(c)
    \/ \E c \in Clients, msg \in GatewayMessages :
            CommandCount < MaxCommands /\ handle_client_message(c, msg)
    \/ \E p \in GatewayProjects : next_stamp <= 1 /\ Notify("timer_expiry", p)
    \/ start_processing
    \/ process_log_queue

SpecGateway == Init /\ [][NextGateway]_vars

\* --------------------------------- specification: the activity logger
\* Handlers log events of two projects while the queue processor is started
\* and stopped.
NextLogger ==
    \/ start_processing
    \/ stop_processing
    \/ \E p \in Projects, event_type \in EventTypes : queue_log_entry(p, event_type)
    \/ process_log_queue

SpecLogger == Init /\ [][NextLogger]_vars

\* ------------------------- specification: the project directory manager
NextDirectory ==
    \/ \E name \in Projects, path \in Paths, save_ok \in BOOLEAN :
            add_project_mapping(name, path, save_ok)
    \/ \E name \in Projects, save_ok \in BOOLEAN : remove_project_mapping(name, save_ok)
    \/ \E name \in Projects, save_ok \in BOOLEAN : get_project_path(name, save_ok)
    \/ \E name \in Projects : create_default_project(name)

SpecDirectory == Init /\ [][NextDirectory]_vars

\* ------------------------------------------ specification: the orchestrator
GracePeriods == {default_grace_period, 900}
ClockSteps == {900}

DeployProjects == {"alpha"}
Next ==
    \/ \E p \in DeployProjects, c \in Commands, g \in GracePeriods :
            on_deploy_detected(p, c, g)
    \/ \E i \in 1..MaxDeploys, ok \in BOOLEAN : schedule_unified_notification(i, ok)
    \/ \E p \in DeployProjects : on_deploy_completed(p)
    \/ \E p \in DeployProjects, t \in TodoStates : EditTodo(p, t)
    \/ timer_update_loop
    \/ handle_timer_expiry
    \/ \E d \in ClockSteps : AdvanceTime(d, MaxClock)

Spec == Init /\ [][Next]_vars

\* The event loop runs every task that is ready: the grace-period task of a
\* deploy and the timer update loop get their turn, and time passes.
SpecLive ==
    /\ Spec
    /\ WF_vars(\E i \in 1..MaxDeploys, ok \in BOOLEAN :
                    schedule_unified_notification(i, ok))
    /\ WF_vars(timer_update_loop)
    /\ WF_vars(\E d \in ClockSteps : AdvanceTime(d, MaxClock))

\* ---------------------------------------- specification: the deploy monitor
MonitorProjects == {"alpha"}
NextMonitor ==
    \/ start_monitoring
    \/ \E p \in MonitorProjects : add_project(p)
    \/ \E p \in MonitorProjects, k \in LineKinds : WrapperAppend(p, k)
    \/ WrapperAppend(GlobalLog, "DEPLOY")
    \/ monitoring_loop
    \/ \E p \in MonitorProjects \cup {GlobalLog} : check_project_stat(p)
    \/ \E read_ok \in BOOLEAN : check_project_read(read_ok)
    \/ handle_deploy_event

SpecMonitor == Init /\ [][NextMonitor]_vars

\* ================================================================== claims
ActiveSessionsOf(p) ==
    {s \in DOMAIN active_sessions :
        /\ active_sessions[s].project_name = p
        /\ active_sessions[s].session_status = "active"}

\* C1: after any interleaving of session starts and ends, active_sessions
\* holds at most one active DeploySession per project.
C1_AtMostOneActiveSession ==
    \A p \in Projects : Cardinality(ActiveSessionsOf(p)) <= 1

TimerExpiredOnlyByClock ==
    \A p \in DOMAIN active_timers :
        active_timers[p].status = "expired" => now >= active_timers[p].end_time

\* The times the clock takes, and the end times of the timers started at
\* them that the clock can reach.
ClockTimes == {t \in 0..MaxClock : \E d \in ClockSteps : t % d = 0}
EndTimes == {t + default_timer_duration : t \in ClockTimes} \cap 0..MaxClock

\* A timer with end time e does not stay running for ever: it expires, unless
\* a new start replaces it or the clean-up of an earlier expiry of the
\* project deletes it first.
ExpiresOnItsOwn(p, e) ==
    (p \in DOMAIN active_timers /\ active_timers[p].end_time = e)
        ~> \/ p \notin DOMAIN active_timers
           \/ active_timers[p].status = "expired"
           \/ active_timers[p].end_time # e

C3_DeployStartOpensSessionAndTimer ==
    lastOp.op = "on_deploy_detected" =>
        LET p == lastOp.project
            sid == get_active_session_for_project(active_sessions, p)
        IN /\ p \in DOMAIN active_timers
           /\ active_timers[p].status = "running"
           /\ active_timers[p].duration_seconds = default_timer_duration
           /\ sid # NoId
           /\ active_sessions[sid].timer_duration_seconds =
                    active_timers[p].duration_seconds

\* C4: when a timer expires, a timer_expiry notification is emitted for its
\* project and the project's active session is ended as completed.
C4_ExpiryNotifiesAndEndsSession ==
    (lastOp.op = "timer_update" /\ lastOp.project # NoProject) =>
        /\ \E k \in DOMAIN sent :
                /\ sent[k].template = "timer_expiry"
                /\ sent[k].project_name = lastOp.project
        /\ ActiveSessionsOf(lastOp.project) = {}

\* C5: the monitor never emits two events for the same log line, also when
\* the wrapper appends between the size check and the read.
C5_NoLineEmittedTwice ==
    \A i, j \in DOMAIN emitted :
        (emitted[i].project = emitted[j].project /\ emitted[i].line = emitted[j].line)
            => i = j

\* C6: switch_pressed goes from false to true at most once per session: the
\* first record_switch of a session sets switch_pressed and switch_ts and
\* returns success, every later one returns success and changes no field of
\* any session, and no other step clears the flag or moves the timestamp.
C6_SwitchRecordedOnce ==
    [][/\ \A s \in DOMAIN active_sessions \cap DOMAIN active_sessions' :
            active_sessions[s].switch_button_pressed =>
                /\ active_sessions'[s].switch_button_pressed
                /\ active_sessions'[s].switch_timestamp =
                        active_sessions[s].switch_timestamp
       /\ (lastOp'.op = "record_switch_button_press" /\ lastOp'.sid # NoId) =>
            /\ lastOp'.ret = "true"
            /\ IF active_sessions[lastOp'.sid].switch_button_pressed
               THEN active_sessions' = active_sessions
               ELSE active_sessions' =
                        [active_sessions EXCEPT
                            ![lastOp'.sid].switch_button_pressed = TRUE,
                            ![lastOp'.sid].switch_timestamp = now]]_vars

\* A later press: it succeeded on a session whose switch was recorded earlier.
C6_Witness ==
    /\ lastOp.op = "record_switch_button_press"
    /\ lastOp.ret = "true"
    /\ lastOp.sid \in DOMAIN active_sessions
    /\ active_sessions[lastOp.sid].switch_button_pressed
    /\ active_sessions[lastOp.sid].switch_timestamp < now

EstimateFollowsSwitch(session) ==
    /\ session.estimated_time_saved_seconds \in
            {0, session.cloud_propagation_time_seconds}
    /\ (session.estimated_time_saved_seconds = session.cloud_propagation_time_seconds)
            <=> session.switch_button_pressed

C8_SwitchNowCountsOnce ==
    [][lastOp'.op = "switch_now" =>
        IF lastOp'.nid \in DOMAIN active_notifications
        THEN (active_notifications[lastOp'.nid].type = "task_suggestion"
                /\ lastOp'.sid # NoId) =>
                /\ lastOp'.ret = "true"
                /\ active_sessions'[lastOp'.sid].switch_button_pressed
                /\ active_sessions'[lastOp'.sid].tasks_accepted =
                        active_sessions[lastOp'.sid].tasks_accepted + 1
        ELSE (lastOp'.nid \in DOMAIN notification_responses
                /\ notification_responses[lastOp'.nid].action = "switch_now") =>
                /\ lastOp'.ret = "true"
                /\ active_sessions' = active_sessions]_vars

SentFor(i) == SelectSeq(sent, LAMBDA n : n.deploy = i)

TemplatesSentFor(i) == [k \in DOMAIN SentFor(i) |-> SentFor(i)[k].template]

\* At most one notification per deploy-start event, of the kind its case
\* calls for: deploy_detected at the time of the deploy when no task is
\* pending; else nothing before the grace period is over, then
\* unified_suggestion, or deploy_detected in its place.
OneNotificationPerDeploy ==
    \A i \in DOMAIN deploys :
        LET d == deploys[i]
        IN /\ Len(SentFor(i)) <= 1
           /\ \A k \in DOMAIN SentFor(i) : SentFor(i)[k].project_name = d.project
           /\ IF ~d.has_tasks
              THEN /\ TemplatesSentFor(i) = <<"deploy_detected">>
                   /\ SentFor(i)[1].timestamp = d.time
              ELSE IF d.outcome = "pending" THEN TemplatesSentFor(i) = <<>>
              ELSE /\ TemplatesSentFor(i) =
                        IF d.outcome = "task" THEN <<"unified_suggestion">>
                        ELSE <<"deploy_detected">>
                   /\ d.outcome \in {"task", "none", "error"}
                   /\ SentFor(i)[1].timestamp >= d.due

\* C9: every DeployStart leads to exactly one deploy notification, never both
\* kinds: deploy_detected immediately when no task is pending, else after
\* the grace period unified_suggestion, replaced by deploy_detected when the
\* selector returns no task or fails.
C9_OneNotificationPerDeploy ==
    /\ [](OneNotificationPerDeploy)
    /\ \A i \in 1..MaxDeploys : (Len(deploys) >= i) ~> (Len(SentFor(i)) = 1)

\* Two deploys answered differently: one by a unified suggestion, one by the
\* deploy_detected that replaces it.
C9_Witness ==
    /\ Len(deploys) = 2
    /\ deploys[1].has_tasks /\ deploys[2].has_tasks
    /\ {TemplatesSentFor(1), TemplatesSentFor(2)} =
            {<<"unified_suggestion">>, <<"deploy_detected">>}

\* C10: for every running timer, after any start, pause, resume, extend and
\* tick, 0 <= remaining_s <= duration_s and
\* progress_pct = 100 * (duration - remaining) / duration.
C10_RemainingWithinDuration ==
    \A p \in DOMAIN active_timers :
        active_timers[p].status = "running" =>
            LET info == active_timers[p]
                progress == calculate_progress(info)
            IN /\ 0 <= info.remaining_seconds
               /\ info.remaining_seconds <= info.duration_seconds
               /\ info.duration_seconds > 0
               /\ progress.num * info.duration_seconds =
                    100 * (info.duration_seconds - info.remaining_seconds) * progress.den

\* The timer of project p after a step is the timer it had before the step.
SameTimer(p) ==
    /\ p \in DOMAIN active_timers
    /\ p \in DOMAIN active_timers'
    /\ ~(lastOp'.op = "timer-start" /\ lastOp'.project = p)

\* C11: once a timer is expired or stopped, no pause, resume, extend, stop or
\* pass of the update loop moves its status back to running or paused, and
\* timer_expired is not published for it a second time.
C11_FinalStatusIsFinal ==
    [][\A p \in Projects :
        (SameTimer(p) /\ active_timers[p].status \in {"expired", "stopped"}) =>
            /\ active_timers'[p].status = active_timers[p].status
            /\ active_timers[p].expired_at # NoTime =>
                    active_timers'[p].expired_at = active_timers[p].expired_at]_vars

ExpiredWaiting == {ticker.expired[i] : i \in DOMAIN ticker.expired}

\* C12: every timer the update loop has set to expired gets its timer_expired
\* event and its deletion after the grace: it is the timer whose event was
\* published and whose grace is running, or it waits its turn in the
\* expired_timers of the pass in progress -- also when other projects' timers
\* are started or stopped while the pass is in progress.
C12_ExpiredTimerIsHandled ==
    \A p \in DOMAIN active_timers :
        active_timers[p].status = "expired" =>
            /\ ticker.running
            /\ ticker.pc \in {"send", "grace"}
            /\ p \in ExpiredWaiting
            /\ active_timers[p].expired_at # NoTime =>
                    (ticker.pc = "grace" /\ Head(ticker.expired) = p)

C14_SelectedTaskPassesFilters ==
    selected_task.task # NoTask =>
        LET task == selected_task.task
            context == selected_task.context
            tags == {task.tags[i] : i \in DOMAIN task.tags}
        IN /\ selected_task.path \in {"llm", "cache", "heuristic"}
           /\ task.completed = FALSE
           /\ context.deploy_active =>
                    tags \cap {"#backend", "#Backend"} = {}
           /\ context.timer_duration <= 900 =>
                    /\ "#long" \notin tags
                    /\ task.estimated_duration <= 60

\* The cache answered for a deploy with a short timer: the second line of a
\* TODO.md whose first line, a #backend task, was filtered out.
C14_Witness ==
    /\ selected_task.path = "cache"
    /\ selected_task.context.deploy_active
    /\ selected_task.context.timer_duration = 900
    /\ selected_task.task.id = 2
    /\ selected_task.task.text = <<"review", "pr">>

\* C16: every task the selector returns carries a suggestion id, and the
\* project's suggestions shard holds a record with that id for the task; no
\* id is handed out without its record.
C16_SuggestionIdHasRecord ==
    /\ selected_task.task # NoTask <=> selected_task.suggestion_id # NoId
    /\ (lastOp.op = "select_best_task" /\ lastOp.ret = "task") <=>
            selected_task.task # NoTask
    /\ selected_task.suggestion_id # NoId =>
            \E k \in DOMAIN ShardOf(suggestions, selected_task.project) :
                /\ suggestions[selected_task.project][k].id =
                        selected_task.suggestion_id
                /\ suggestions[selected_task.project][k].task_text =
                        selected_task.task.text

\* A task returned for one project after a suggestion was recorded for the
\* other: its record is in its own project's shard.
C16_Witness ==
    /\ selected_task.project = "beta"
    /\ selected_task.suggestion_id = 2
    /\ Len(ShardOf(suggestions, "alpha")) = 1
    /\ Len(ShardOf(suggestions, "beta")) = 1

IsTaskNotification(n) == n.type \in {"task_suggestion", "unified_suggestion"}

AnswerActions == RespondActions \cup SnoozeRespondActions

\* C15: every handle_notification_response that succeeds on an active
\* task_suggestion or unified_suggestion appends exactly one record to the
\* interactions shard of the notification's project, whatever the action.
C15_OneInteractionPerResponse ==
    [][(/\ lastOp'.op \in AnswerActions
        /\ lastOp'.ret = "true"
        /\ lastOp'.nid \in DOMAIN active_notifications
        /\ IsTaskNotification(active_notifications[lastOp'.nid]))
       => Len(ShardOf(interactions', lastOp'.project)) =
                Len(ShardOf(interactions, lastOp'.project)) + 1]_vars

\* C17: after handle_notification_response(id, action, extra) has returned
\* True, id is not a key of active_notifications, for every action and every
\* additional_data.
C17_AnsweredIdLeavesActive ==
    (lastOp.op \in AnswerActions /\ lastOp.ret = "true")
        => lastOp.nid \notin DOMAIN active_notifications

ReminderCount(message) ==
    Cardinality({i \in DOMAIN message : message[i] = "(Reminder)"})

\* C18: a notification that was sent again after a snooze has a message that
\* ends with " (Reminder)" and holds "(Reminder)" exactly once.
C18_ReminderTextOnce ==
    \A nid \in DOMAIN active_notifications :
        nid[2] = "resend" =>
            LET message == active_notifications[nid].message
            IN /\ message # <<>>
               /\ message[Len(message)] = "(Reminder)"
               /\ ReminderCount(message) = 1

PendingSnoozeOf(p) ==
    \E task \in snooze_tasks : task.notification.project_name = p

\* C19: once a project's timer has been stopped while a snooze of one of the
\* project's notifications is pending, no reminder of the project is sent
\* again or stored in active_notifications.
C19_StopCancelsSnooze ==
    \A p \in SnoozeProjects :
        []((/\ lastOp.op = "timer-stop" /\ lastOp.ret = "true" /\ lastOp.project = p
            /\ PendingSnoozeOf(p))
           => [](~(lastOp.op = "reschedule" /\ lastOp.project = p)))

\* The broadcast events a client was sent, in the order of arrival.
Delivered(c) == SelectSeq(received[c], LAMBDA message : message.type = "event")

\* C20: the events sent to a client arrive in the order of their broadcast
\* calls, whichever tasks made the calls.
C20_DeliveredInPublicationOrder ==
    \A c \in Clients :
        \A i, j \in DOMAIN Delivered(c) :
            i < j => Delivered(c)[i].id < Delivered(c)[j].id

\* The commands the router knows, of those the clients send.
KnownCommands == {"ping", "timer-start", "timer-stop", "notification-response"}

\* What a step sent to a client.
NewFor(c) == SubSeq(received'[c], Len(received[c]) + 1, Len(received'[c]))
NewAnswers(c) == SelectSeq(NewFor(c), IsAnswer)

\* The step sent exactly one answer, a response to client c that echoes the
\* command, and no answer to another client.
OneResponse(c, command) ==
    /\ Len(NewAnswers(c)) = 1
    /\ NewAnswers(c)[1].type = "response"
    /\ NewAnswers(c)[1].command = command
    /\ \A d \in Clients \ {c} : NewAnswers(d) = <<>>

\* C21: a command in a JSON object gets exactly one response envelope, sent
\* to the client that submitted it, with the command's name in its command
\* field: when the handler returns, or, for a handler that waited in the
\* activity logger's put, when it is woken; an unknown command is answered
\* with success false and "Unknown command: <name>".
C21_OneResponsePerCommand ==
    [][/\ (lastOp'.op = "handle_client_message" /\ lastOp'.arg = 1)
            => /\ OneResponse(lastOp'.ret, lastOp'.command)
               /\ lastOp'.command \notin KnownCommands
                    => /\ ~NewAnswers(lastOp'.ret)[1].success
                       /\ NewAnswers(lastOp'.ret)[1].message =
                              <<"Unknown command:", lastOp'.command>>
       /\ (lastOp'.op = "handle_client_message" /\ lastOp'.arg = 2)
            => \A d \in Clients : NewAnswers(d) = <<>>
       /\ (lastOp'.op = "process_log_queue" /\ lastOp'.ret \in clients)
            => OneResponse(lastOp'.ret, lastOp'.command)]_vars

C21_Witness ==
    /\ lastOp.op = "handle_client_message"
    /\ lastOp.arg = 1
    /\ lastOp.command = "bogus"
    /\ received[lastOp.ret][Len(received[lastOp.ret])] =
          Response("bogus", FALSE, <<"Unknown command:", "bogus">>)
    /\ received[lastOp.ret][Len(received[lastOp.ret]) - 1].type = "response"

\* The step handled a text that is no JSON, an unknown command, or a command
\* without a field it requires.
RejectedMessage ==
    /\ lastOp'.op = "handle_client_message"
    /\ \/ lastOp'.arg = 0
       \/ lastOp'.command \notin KnownCommands
       \/ lastOp'.command = "notification-response" /\ lastOp'.nid = NoNid
       \/ lastOp'.command \in {"timer-start", "timer-stop"}
            /\ lastOp'.project = NoProject

C23_ProducerNeverWaits ==
    /\ Len(log_queue) <= MaxQueue
    /\ log_waiters = <<>>

\* What resolve(name) returns in the state a step leaves.
ResolvedNext(name) ==
    project_path([file |-> mappings_file', cache |-> mappings_cache',
                  loaded |-> cache_loaded'], name, TRUE)

\* C24: after an add of a name and a path that succeeded, resolving the name
\* returns that path, as the absolute path the mapping stores; after a remove
\* of a name that succeeded, resolving it returns nothing: for every name,
\* whatever the default projects directory holds.
C24_AddRemoveResolve ==
    [][/\ (lastOp'.op = "add_project_mapping" /\ lastOp'.ret = "true")
            => ResolvedNext(lastOp'.project) = Path_resolve(lastOp'.command)
       /\ (lastOp'.op = "remove_project_mapping" /\ lastOp'.ret = "true")
            => ResolvedNext(lastOp'.project) = NoPath]_vars

\* C25: every notification that was emitted, a reminder sent again after a
\* snooze included, went out on the event bus, whatever became of the
\* platform channels.
C25_EmittedIsPublished ==
    \A i \in DOMAIN sent :
        \E j \in DOMAIN show_custom : show_custom[j].id = sent[i].id

\* C26: a paused timer is never marked expired, and resume_timer moves the
\* end time back by exactly the time spent paused: the time remaining just
\* after the resume is the time that remained at the pause, and the end time
\* of a timer that runs is its start time plus its duration plus all the
\* time it spent paused.
C26_PauseFreezesCountdown ==
    [][/\ \A p \in DOMAIN active_timers' :
            /\ active_timers'[p].paused => active_timers'[p].status # "expired"
            /\ ~active_timers'[p].paused =>
                    active_timers'[p].end_time =
                        active_timers'[p].start_time + active_timers'[p].duration_seconds
                            + active_timers'[p].pause_duration
       /\ (lastOp'.op = "resume_timer" /\ lastOp'.ret = "true")
            => LET old == active_timers[lastOp'.project]
                   new == active_timers'[lastOp'.project]
               IN /\ new.end_time = old.end_time + (now' - old.pause_time)
                  /\ new.end_time - now' = old.end_time - old.pause_time
                  /\ ~new.paused]_vars

C26_Witness ==
    /\ lastOp.op = "resume_timer"
    /\ lastOp.ret = "true"
    /\ active_timers[lastOp.project].pause_duration > 0
    /\ active_timers[lastOp.project].end_time > now
    /\ active_timers[lastOp.project].start_time + active_timers[lastOp.project].duration_seconds
            <= now

\* C27: no update task runs while there is no timer: when the last timer
\* goes, by stop_timer or by the deletion that ends the grace of an expiry,
\* the update task ends, so that the next start_timer creates a new one.
C27_NoTickerWithoutTimers ==
    DOMAIN active_timers = {} => ~ticker.running


\* The pending tasks of a TODO.md that pass the context filters, in the
\* order of the file, each with the priority the filter gives it.
Candidates(file, context) ==
    LET kept == SelectSeq(parse_todo_file(file),
                    LAMBDA t : ~t.completed /\ PassesContext(t, context))
    IN [i \in DOMAIN kept |->
            [kept[i] EXCEPT !.priority = ContextPriority(kept[i], context)]]

\* C28: the task the heuristic returns has the highest heuristic score among
\* the filtered tasks, and among the tasks with that score it is the first in
\* the order of the TODO list.
C28_HeuristicMaxScoreFirstInFile ==
    selected_task.path = "heuristic" =>
        LET context == selected_task.context
            cands == Candidates(selected_task.file, context)
            score == heuristic_score(selected_task.task, context)
        IN \A i \in DOMAIN cands :
            /\ heuristic_score(cands[i], context) <= score
            /\ heuristic_score(cands[i], context) = score =>
                    cands[i].id >= selected_task.task.id

\* C29: every task parsed from a TODO.md and every task the selector returns
\* has a priority from 1 to 10, the context adjustments of the filter
\* included.
C29_PriorityWithinScale ==
    /\ \A i \in DOMAIN selected_task.file :
            parse_todo_file(selected_task.file)[i].priority \in 1..10
    /\ selected_task.task # NoTask => selected_task.task.priority \in 1..10

\* C30: a call of the selector returns a task exactly when at least one
\* pending task passes the context filters, whatever the model answered, and
\* a call that returns none records no suggestion.
C30_TaskIffSuitable ==
    [][lastOp'.op = "select_best_task" =>
            /\ selected_task'.task # NoTask <=>
                    (IF lastOp'.ret = "task"
                     THEN Candidates(selected_task'.file, selected_task'.context) # <<>>
                     ELSE lastOp'.arg > 0)
            /\ selected_task'.task = NoTask => suggestions' = suggestions]_vars

\* C31: a read of a project's deploy log that fails leaves the file's last
\* position and the emitted events as they were, so that the next tick finds
\* the same slice; the projects the tick has not reached yet are still to be
\* checked, and a tick that has none left ends in the loop's sleep, from
\* which it ticks again.
C31_ReadErrorRetried ==
    [][(lastOp'.op = "check_project_read" /\ lastOp'.ret = "error") =>
            /\ last_known_positions' = last_known_positions
            /\ emitted' = emitted
            /\ Len(log_files'[lastOp'.project]) >
                    last_known_positions'[lastOp'.project]
            /\ monitor_task'.pc = "idle"
            /\ monitor_task'.pending = monitor_task.pending
            /\ monitor_task'.pending = <<>> => monitor_task' = IdleMonitor]_vars

\* The read of the first project's log failed and the global log, which has
\* a new line, is still to be checked in this tick.
C31_Witness ==
    /\ lastOp.op = "check_project_read"
    /\ lastOp.ret = "error"
    /\ lastOp.project = "alpha"
    /\ monitor_task.pending = <<GlobalLog>>
    /\ Len(log_files[GlobalLog]) > last_known_positions[GlobalLog]

\* C32: attaching a log, a project's by add_project or the global one by
\* start_monitoring, sets its last position to the size the file has then,
\* 0 for a file the attach creates; positions never move back, and every
\* event handed to the callbacks is for a line behind the position the file
\* had before it was read, so that no line that was in the file at attach
\* time is emitted.
C32_AttachSkipsHistory ==
    [][/\ lastOp'.op \in {"add_project", "start_monitoring"} =>
            /\ last_known_positions'[lastOp'.project] = Len(log_files[lastOp'.project])
            /\ lastOp'.project \in log_exists'
            /\ lastOp'.project \notin log_exists =>
                    /\ last_known_positions'[lastOp'.project] = 0
                    /\ log_files'[lastOp'.project] = <<>>
       /\ \A p \in DOMAIN last_known_positions :
            /\ p \in DOMAIN last_known_positions'
            /\ last_known_positions'[p] >= last_known_positions[p]
       /\ lastOp'.op = "check_project_read" =>
            \A i \in DOMAIN monitor_task'.events :
                monitor_task'.events[i].line > last_known_positions[lastOp'.project]
       /\ lastOp'.op = "handle_deploy_event" =>
            emitted' = Append(emitted, Head(monitor_task.events))
       /\ lastOp'.op \notin {"handle_deploy_event"} => emitted' = emitted]_vars

\* A project was attached to a log that already held a DEPLOY line, and the
\* only event emitted since is that of the line appended afterwards.
C32_Witness ==
    /\ lastOp.op = "handle_deploy_event"
    /\ lastOp.project = "alpha"
    /\ log_files["alpha"] = <<"DEPLOY", "DEPLOY_COMPLETE">>
    /\ emitted = <<[project |-> "alpha", line |-> 2, type |-> "deploy_complete"]>>
    /\ last_known_positions["alpha"] = 2

\* C33: when the host process shuts the activity logger down, every entry
\* that was enqueued before is written to its log before the drainer stops:
\* after stop_processing no entry is left in the queue or waiting to enter
\* it.
C33_ShutdownDrainsQueue ==
    lastOp.op = "stop_processing" =>
        /\ log_queue = <<>>
        /\ log_waiters = <<>>

\* The snooze task a step started, and the one a step ended.
StartedSnoozes == snooze_tasks' \ snooze_tasks
EndedSnoozes == snooze_tasks \ snooze_tasks'

\* C34: the respond call that handles a snooze, of 0 minutes as of any
\* length, removes the notification and schedules a task, and emits nothing
\* and stores no notification itself; the reminder is emitted by the step of
\* that task, which runs later, when the original id is no longer in the
\* active map.
C34_SnoozeReemitsInLaterStep ==
    [][/\ (lastOp'.op \in SnoozePrefixed /\ StartedSnoozes # {}) =>
            /\ sent' = sent
            /\ show_custom' = show_custom
            /\ lastOp'.nid \notin DOMAIN active_notifications'
            /\ DOMAIN active_notifications' \subseteq DOMAIN active_notifications
            /\ \A task \in StartedSnoozes :
                    /\ task.notification.id = lastOp'.nid
                    /\ task.due >= now'
       /\ lastOp'.op = "reschedule" =>
            /\ Cardinality(EndedSnoozes) = 1
            /\ \A task \in EndedSnoozes :
                    /\ task.notification.id \notin DOMAIN active_notifications
                    /\ task.notification.id \notin DOMAIN active_notifications'
                    /\ lastOp'.nid # task.notification.id
                    /\ lastOp'.nid \in DOMAIN active_notifications'
       /\ lastOp'.op \notin {"reschedule", "notify"} =>
            Len(sent') = Len(sent)]_vars

\* The reminder of a snooze of 0 minutes was emitted at the clock reading of
\* the respond call, by the task's own step.
C34_Witness ==
    /\ lastOp.op = "reschedule"
    /\ now = 0
    /\ Len(sent) = 2
    /\ sent[2].id = lastOp.nid
    /\ sent[1].id \notin DOMAIN active_notifications

\* C35: the response time a successful respond stores for a notification is
\* the time that passed since the notification with that id was created,
\* also for a reminder that was emitted again under a new id.
C35_ResponseTimeSinceCreation ==
    [][(lastOp'.op \in ReminderActions /\ lastOp'.ret = "true") =>
            notification_responses'[lastOp'.nid].response_time_seconds =
                now' - active_notifications[lastOp'.nid].timestamp]_vars

C37_OneResponsePerId ==
    [][(lastOp'.op \in {"view_timer", "dismiss"} /\ lastOp'.ret = "true")
        => /\ lastOp'.nid \in DOMAIN active_notifications
           /\ \A i \in DOMAIN responding' : responding'[i].nid # lastOp'.nid]_vars

\* C38: every notification that is emitted, and every reminder that is
\* re-emitted after a snooze, is stored under an id that no active
\* notification has, so that storing it overwrites nothing.
C38_FreshNotificationId ==
    [][lastOp'.op \in {"notify", "reschedule"}
        => lastOp'.nid \notin DOMAIN active_notifications]_vars

\* C39: no DEPLOY or DEPLOY_COMPLETE line appended after a project was
\* attached is skipped: a step that moves the project's last position over
\* such a line has read it as an event that is now waiting to be handled, so
\* that the line is emitted while monitoring stays active -- also when the
\* step is another add_project of the same project.
C39_NoDeployLineSkipped ==
    [][\A p \in DOMAIN last_known_positions :
         \A k \in (last_known_positions[p] + 1)..last_known_positions'[p] :
            (k <= Len(log_files[p]) /\ parse_deploy_line(log_files[p][k]) # "none")
                => \E i \in DOMAIN monitor_task'.events :
                      /\ monitor_task'.events[i].line = k
                      /\ monitor_task'.events[i].project = p]_vars

\* C40: the first envelope a connected client is sent is system.connected:
\* no event broadcast while its registration is in progress is sent to it
\* before the welcome message.
C40_ConnectedComesFirst ==
    \A c \in Clients : received[c] # <<>> => Head(received[c]) = Connected

\* A client whose registration still waits has been sent an event after its
\* welcome message.
C40_Witness ==
    \E c \in registering :
        /\ Len(received[c]) >= 2
        /\ received[c][1] = Connected
        /\ received[c][2].type = "event"

====
